---- MODULE Spec2Model ----
(***************************************************************************)
(* Model of the GC market-data pipeline: the broker tick streams, the      *)
(* quant engine (rolling windows, VWAP sums, throttled snapshots), the     *)
(* archivist (hot-to-cold tick archival with per-symbol cursors) and the   *)
(* market gateway (listeners, buffered flush, stop).                       *)
(*                                                                         *)
(* Sizes are scaled down so that the state space is finite and small: the  *)
(* deque capacity (200 in the source), the window size (100) and the       *)
(* minimum number of points (20) keep their order                          *)
(*   MIN_POINTS_FOR_ANALYTICS < window_size < DequeMaxLen                  *)
(* and every comparison of the source is kept as written.  Times are in    *)
(* milliseconds and keep the source's values.                              *)
(***************************************************************************)
EXTENDS Integers, Sequences, FiniteSets, TLC

\* ------------------------------------------------------------------ bounds
\* deque(maxlen=200) of SymbolData, scaled
DequeMaxLen == 5
\* ROLLING_WINDOW_TICKS / window_size default 100, scaled
ROLLING_WINDOW_TICKS == 3
\* MIN_POINTS_FOR_ANALYTICS = 20, scaled
MIN_POINTS_FOR_ANALYTICS == 2
\* count=100 of the engine's stream_read, scaled
ReadCount == 2
\* total number of entries appended to the tick streams in a run
MaxTicks == 6
\* the engine's clock stops advancing here
MaxClock == 2000
\* batch_size=1000 of the archivist, scaled
BatchSize == 2
\* entries appended to the streams in a run of the archivist alone
ArchTicks == 4
\* ticks of one symbol in a run that varies prices and quantities
VwapTicks == 5
\* ticks in a run that varies the time between rounds
CadenceTicks == 4
\* entries in a run of the engine and the archivist side by side
ConsumerTicks == 3
\* exchange messages received by the gateway's listeners in a run
MaxMessages == 3
\* alerts built in a run
MaxAlerts == 2
\* snapshots passed to alert evaluation in a run
MaxEvals == 3
\* log entries given to the log sink in a run
MaxLogs == 4
\* seconds of orchestrator time in a run
MaxOrchClock == 6
\* largest trade id of a tick that is converted
MaxTradeId == 12
\* ticks aggregated into bars
MaxOhlcTicks == 3
\* largest aligned length of a pair whose ADF fields are computed
MaxAdfLen == 52
\* the gateway clock runs from StartClock to StartClock + MaxBeatClock
MaxBeatClock == 1
\* get_active_alerts is called with a limit of 0..MaxLimit
MaxLimit == 2

\* ------------------------------------------------------- program constants
SINGLE_THROTTLE_MS == 500
PAIR_THROTTLE_MS == 1000
BLOCK_MS == 500
StartClock == 1000
\* reconnect_delay = 1.0 and GatewayState.max_delay = 30.0, in seconds
INITIAL_DELAY == 1
max_delay == 30
\* alert_z_threshold = 2.0
alert_z_threshold == 2
\* CentralLogger._rate_limit_interval, in ms
rate_limit_interval == 1000
\* QuantEngine.MIN_POINTS_FOR_ADF
MIN_POINTS_FOR_ADF == 50

\* settings.SYMBOLS, upper-cased by the engine and the archivist
SYMBOLS == <<"BTCUSDT", "ETHUSDT">>
Sym == {SYMBOLS[i] : i \in 1..Len(SYMBOLS)}
\* the pairs (sym_a, sym_b) of _compute_all_analytics: i < j
Pairs == UNION {{<<SYMBOLS[i], SYMBOLS[j]>> : j \in (i + 1)..Len(SYMBOLS)} :
                i \in 1..Len(SYMBOLS)}
\* keys of last_compute_time and of state:analytics:<key>
Keys == {<<s>> : s \in Sym} \cup Pairs

\* the cursor "$"
Dollar == -1

VARIABLES
    stream,            \* stream:ticks:<SYMBOL>, entry id = index
    state_analytics,   \* state:analytics:<key> hash, <<>> when absent
    clock,             \* time.time() * 1000
    window_size,       \* QuantEngine.window_size
    symbol_data,       \* QuantEngine.symbol_data
    stream_positions,  \* QuantEngine.stream_positions
    last_compute_time, \* QuantEngine.last_compute_time, <<>> when absent
    ePc,               \* position of the engine's main loop
    eResolved,         \* per stream, the id the pending XREAD reads after
    eDelivered,        \* per stream, ids delivered by the engine's last read
    ePrevLast,         \* per stream, last id the engine observed before that
    snapshots,         \* per key, the last snapshot computed (<<>> if none)
    pubTimes,          \* per key, engine-clock times of the last two publications
    eProcessed,        \* per stream, the ids given to _process_tick, in order
    eStart,            \* per stream, the id the engine's first read started after (<<>> before it)
    eMaxTs,            \* per symbol, the largest timestamp of the ticks processed (<<>> if none)
    last_archived_ts,  \* Archivist.last_archived_ts["tick:<symbol>"], Dollar if absent
    aPc,               \* position of the archivist's main loop
    aIdx,              \* index in SYMBOLS of the symbol being archived
    aResolved,         \* the id the archivist's pending XREAD reads after
    aBatch,            \* ids of the parsed ticks handed to insert_ticks_batch
    aLastEntry,        \* last_entry_id of _archive_ticks
    aDelivered,        \* per stream, ids delivered by the archivist's last read
    aPrevLast,         \* per stream, last id the archivist observed before that
    cold_ticks,        \* rows of the cold table ticks, in insertion order
    cold_snapshots,    \* distinct rows of the cold table analytics_snapshots
    aFailed,           \* <<symbol, position before>> of the last failed insert
    aStart,            \* per stream, the id the archivist's first read started after
    runBase,           \* rows in the cold ticks table when this archivist was constructed
    runLen,            \* per stream, its length when this archivist was constructed
    running,           \* GatewayState.running
    lPc,               \* per symbol, position of _binance_listener
    reconnect_delay,   \* per symbol, the local reconnect_delay of its listener
    sockets,           \* symbols with an entry in GatewayState.sockets
    closed,            \* symbols whose socket stop() has closed
    trade_buffer,      \* MarketGateway.trade_buffer
    tick_count,        \* GatewayState.tick_count
    flPc,              \* position of _buffer_flusher
    stopPc,            \* position of stop()
    fIdx,              \* per caller of _flush_all_buffers, index of the symbol in flight
    fBatch,            \* per caller, the trades of the pipeline awaiting execute
    received,          \* number of exchange messages received so far
    accepted,          \* per symbol, ids of the trades appended to its buffer
    malformed,         \* ids of the buffered trades that lack a field or hold a non-number
    swapped,           \* per symbol, the batches swapped out of its buffer, in order
    stopRuns,          \* calls of the gateway's stop() begun so far
    dropped,           \* ids of the trades of the batches whose pipeline.execute() raised
    generated,         \* alerts built by _check_alerts, in order; the id is the index
    chkPc,             \* position of _check_alerts / add_alert for the alert in hand
    alert_hash,        \* per alert id, the state of the hash alert:<id>
    alerts_active,     \* ids in the sorted set alerts:active
    channel_alerts,    \* ids published on channel:alerts
    alert_old,         \* ids whose timestamp is more than max_age_hours back
    lastScan,          \* TRUE when the last operation on the store was a scan
    chkSnap,           \* the last snapshot passed to _check_alerts (<<>> if none)
    logClock,          \* time.time() * 1000 of the log sink
    last_operation_log, \* CentralLogger._last_operation_log, <<>> when absent
    operation_counts,  \* CentralLogger._operation_counts, 0 when absent
    lastLog,           \* the last entry given to _should_log and its outcome (<<>> if none)
    logReceived,       \* per key, entries given to _should_log so far
    logEmittedSum,     \* per key, sum of _aggregated_count over the lines emitted
    logEmitTimes,      \* per key, the times of the last two lines emitted
    orchClock,         \* seconds since start_all_services created the tasks
    taskPc,            \* per service, where its _run_* task is
    taskWake,          \* per service, when the sleep of its _run_* task ends
    svc_running,       \* per service, its running flag
    startLog,          \* the services in the order their start() was called
    stopLog,           \* the stop() calls made so far, in order, with their caller
    orchPc,            \* stop_all_services: 0 not called, i next service, 5 cancel, 6 over
    orchPass,          \* which call of stop_all_services: "signal" or "main"
    tickIn,            \* the TickData given to to_redis_dict (<<>> if none)
    tickRedis,         \* the dict to_redis_dict returned (<<>> if none)
    tickOut,           \* the TickData from_redis_dict built from it (<<>> if none)
    ohlcTicks,         \* the ticks of one symbol given to compute_ohlc_from_ticks
    ohlcOut,           \* the bars it returned (<<>> if not called), with the variant
    adfIn,             \* the aligned length and the outcome of the ADF routine of a pair snapshot
    adfOut,            \* the ADF fields of that snapshot (<<>> if none)
    hbPc,              \* where the gateway's _heartbeat task is
    closing,           \* the socket whose close() stop() awaits (<<>> if none)
    closeLeft,         \* the sockets the loop of stop() has still to visit
    closeSize,         \* the size of state.sockets when that loop began
    gwClock,           \* time.time() * 1000 of the gateway
    last_tick_time,    \* GatewayState.last_tick_time
    beatIdx,           \* _heartbeat: 0 asleep, i awaiting the publish for SYMBOLS[i]
    beat,              \* per symbol, the last heartbeat logged (<<>> if none)
    scanPc,            \* the call of get_active_alerts under way (<<>> if none)
    scanOut,           \* the last call of get_active_alerts that returned (<<>> if none)
    ackPc              \* <<id>> while acknowledge_alert(id) has seen the key and awaits its HSET

engineVars == <<clock, window_size, symbol_data, stream_positions,
                last_compute_time, ePc, eResolved, eDelivered, ePrevLast,
                snapshots, pubTimes, state_analytics, eMaxTs, eProcessed, eStart>>

archVars == <<last_archived_ts, aPc, aIdx, aResolved, aBatch, aLastEntry,
              aDelivered, aPrevLast, cold_ticks, cold_snapshots, aFailed, aStart,
              runBase, runLen>>

gatewayVars == <<running, lPc, reconnect_delay, sockets, closed, trade_buffer,
                 tick_count, flPc, stopPc, fIdx, fBatch, received, accepted, malformed, swapped, stopRuns,
                 dropped>>

alertVars == <<generated, chkPc, alert_hash, alerts_active, channel_alerts,
               alert_old, lastScan, chkSnap>>

logVars == <<logClock, last_operation_log, operation_counts, lastLog,
             logReceived, logEmittedSum, logEmitTimes>>

orchVars == <<orchClock, taskPc, taskWake, svc_running, startLog, stopLog,
              orchPc, orchPass>>

tickVars == <<tickIn, tickRedis, tickOut>>

ohlcVars == <<ohlcTicks, ohlcOut>>

adfVars == <<adfIn, adfOut>>

beatVars == <<gwClock, last_tick_time, beatIdx, beat>>

ackVars == <<scanPc, scanOut, ackPc>>

fnVars == <<tickVars, ohlcVars, adfVars, beatVars, ackVars>>

shutVars == <<hbPc, closing, closeLeft, closeSize>>

auxVars == <<alertVars, logVars, orchVars, fnVars, shutVars>>

vars == <<stream, engineVars, archVars, gatewayVars, auxVars>>

\* ------------------------------------------------------------ the broker
LastId(s) == Len(stream[s])

\* XREAD semantics: "$" is the last id of the stream at call time
Resolve(s, cursor) == IF cursor = Dollar THEN LastId(s) ELSE cursor

\* ids of the entries XREAD returns: after `after`, at most `count`
XRead(s, after, count) ==
    LET hi == IF LastId(s) < after + count THEN LastId(s) ELSE after + count
    IN  [i \in 1..(hi - after) |-> after + i]

\* pipeline.xadd(stream_key, tick.to_redis_dict()) of a tick whose
\* timestamp (the trade time given by the exchange) is ts
XAddAt(s, p, q, ok, ts) ==
    /\ Len(stream[SYMBOLS[1]]) + Len(stream[SYMBOLS[2]]) < MaxTicks
    /\ stream' = [stream EXCEPT ![s] =
                    Append(@, [trade_id |-> Len(@) + 1, price |-> p,
                               qty |-> q, ok |-> ok, timestamp |-> ts])]

\* the same for a tick traded when the run begins
XAdd(s, p, q, ok) == XAddAt(s, p, q, ok, StartClock)

\* ------------------------------------------------------------ the engine
EmptySymbolData == [prices |-> <<>>, quantities |-> <<>>, last_tick_time |-> 0,
                    vwap_sum_pq |-> 0, vwap_sum_q |-> 0]

\* deque.append with maxlen
DequeAppend(q, x) ==
    IF Len(q) >= DequeMaxLen THEN Append(Tail(q), x) ELSE Append(q, x)

ProcessTick_Partial(sd, e) ==
    IF ~e.ok THEN [sd EXCEPT !.prices = DequeAppend(sd.prices, e.price)]
    ELSE
      LET prices == DequeAppend(sd.prices, e.price)
          quantities == DequeAppend(sd.quantities, e.qty)
          pq == sd.vwap_sum_pq + e.price * e.qty
          qq == sd.vwap_sum_q + e.qty
      IN  IF Len(prices) > window_size
          THEN [prices |-> prices, quantities |-> quantities,
                last_tick_time |-> e.timestamp,
                vwap_sum_pq |-> pq - prices[1] * quantities[1],
                vwap_sum_q |-> qq - quantities[1]]
          ELSE [prices |-> prices, quantities |-> quantities,
                last_tick_time |-> e.timestamp,
                vwap_sum_pq |-> pq, vwap_sum_q |-> qq]

\* QuantEngine._process_tick; a tick that fails to parse changes nothing
ProcessTick(sd, e) ==
    IF ~e.ok THEN sd
    ELSE
      LET prices == DequeAppend(sd.prices, e.price)
          quantities == DequeAppend(sd.quantities, e.qty)
          pq == sd.vwap_sum_pq + e.price * e.qty
          qq == sd.vwap_sum_q + e.qty
      IN  IF Len(prices) > window_size
          THEN [prices |-> prices, quantities |-> quantities,
                last_tick_time |-> e.timestamp,
                vwap_sum_pq |-> pq - prices[1] * quantities[1],
                vwap_sum_q |-> qq - quantities[1]]
          ELSE [prices |-> prices, quantities |-> quantities,
                last_tick_time |-> e.timestamp,
                vwap_sum_pq |-> pq, vwap_sum_q |-> qq]

\* the largest timestamp among m (<<>> if none yet) and the ticks of ids
\* that _process_tick accepts
RECURSIVE MaxSeen(_, _, _)
MaxSeen(m, s, ids) ==
    IF ids = <<>> THEN m
    ELSE LET e == stream[s][Head(ids)]
             m2 == IF ~e.ok THEN m
                   ELSE IF m = <<>> \/ m[1] < e.timestamp THEN <<e.timestamp>>
                   ELSE m
         IN  MaxSeen(m2, s, Tail(ids))

CursorAfterRead_First(ids) == ids[1]

\* stream_positions[stream_name] = entry_id, for every entry of the read
CursorAfterRead(ids) == ids[Len(ids)]

RECURSIVE ProcessEntries(_, _, _)
ProcessEntries(sd, s, ids) ==
    IF ids = <<>> THEN sd
    ELSE ProcessEntries(ProcessTick(sd, stream[s][Head(ids)]), s, Tail(ids))

Validity_OffByOne(n) ==
    IF n < MIN_POINTS_FOR_ANALYTICS THEN "insufficient"
    ELSE IF n <= window_size THEN "warming_up"
    ELSE "valid"

\* validity of _compute_single_symbol_analytics / _compute_pair_analytics
Validity(n) ==
    IF n < MIN_POINTS_FOR_ANALYTICS THEN "insufficient"
    ELSE IF n < window_size THEN "warming_up"
    ELSE "valid"

Min(a, b) == IF a < b THEN a ELSE b

Max(a, b) == IF a > b THEN a ELSE b

\* QuantEngine._compute_single_symbol_analytics; <<>> is None
ComputeSingle(s, now) ==
    LET sd == symbol_data[s] IN
    IF Len(sd.prices) = 0 THEN <<>>
    ELSE <<[symbol |-> s, pair_symbol |-> "none", timestamp |-> now,
            last_price |-> sd.prices[Len(sd.prices)],
            vwap |-> IF sd.vwap_sum_q > 0
                     THEN <<sd.vwap_sum_pq, sd.vwap_sum_q>> ELSE <<>>,
            data_freshness_ms |-> IF sd.last_tick_time # 0
                                  THEN now - sd.last_tick_time ELSE 0,
            validity_status |-> Validity(Len(sd.prices)),
            tick_count |-> Len(sd.prices)]>>

ComputePair_OneSide(a, b, now) ==
    LET min_len == Min(Len(symbol_data[a].prices), Len(symbol_data[b].prices)) IN
    IF Len(symbol_data[a].prices) < MIN_POINTS_FOR_ANALYTICS THEN <<>>
    ELSE <<[symbol |-> a, pair_symbol |-> b, timestamp |-> now,
            last_price |-> symbol_data[a].prices[Len(symbol_data[a].prices)],
            vwap |-> <<>>,
            data_freshness_ms |-> now - Min(symbol_data[a].last_tick_time,
                                            symbol_data[b].last_tick_time),
            validity_status |-> Validity(min_len),
            tick_count |-> min_len]>>

\* QuantEngine._compute_pair_analytics; <<>> is None
ComputePair(a, b, now) ==
    LET min_len == Min(Len(symbol_data[a].prices), Len(symbol_data[b].prices)) IN
    IF min_len < MIN_POINTS_FOR_ANALYTICS THEN <<>>
    ELSE <<[symbol |-> a, pair_symbol |-> b, timestamp |-> now,
            last_price |-> symbol_data[a].prices[Len(symbol_data[a].prices)],
            vwap |-> <<>>,
            data_freshness_ms |-> now - Min(symbol_data[a].last_tick_time,
                                            symbol_data[b].last_tick_time),
            validity_status |-> Validity(min_len),
            tick_count |-> min_len]>>

Snapshot(k, now) ==
    IF Len(k) = 1 THEN ComputeSingle(k[1], now) ELSE ComputePair(k[1], k[2], now)

Throttle_SameForPairs(k) == SINGLE_THROTTLE_MS

\* 500 ms per symbol, 1000 ms per pair
Throttle(k) == IF Len(k) = 1 THEN SINGLE_THROTTLE_MS ELSE PAIR_THROTTLE_MS

\* now - self.last_compute_time.get(key, 0) < throttle  ->  continue
Throttled(k, now) ==
    now - (IF last_compute_time[k] = <<>> THEN 0 ELSE last_compute_time[k][1])
        < Throttle(k)

\* HSET key mapping: fields of the mapping are written, others are kept
HSet(old, new) ==
    IF old = <<>> THEN <<new>>
    ELSE <<[new EXCEPT !.vwap = IF new.vwap = <<>> THEN old[1].vwap ELSE new.vwap,
                       !.pair_symbol = IF new.pair_symbol = "none"
                                       THEN old[1].pair_symbol ELSE new.pair_symbol]>>

InitBroker ==
    /\ stream = [s \in Sym |-> <<>>]
    /\ state_analytics = [k \in Keys |-> <<>>]

\* QuantEngine(symbols, window_size) for a window_size among W
InitEngineOf(W) ==
    /\ clock = StartClock
    /\ window_size \in W
    /\ symbol_data = [s \in Sym |-> EmptySymbolData]
    /\ stream_positions = [s \in Sym |-> Dollar]
    /\ last_compute_time = [k \in Keys |-> <<>>]
    /\ ePc = "read"
    /\ eResolved = [s \in Sym |-> 0]
    /\ eDelivered = [s \in Sym |-> <<>>]
    /\ ePrevLast = [s \in Sym |-> 0]
    /\ snapshots = [k \in Keys |-> <<>>]
    /\ pubTimes = [k \in Keys |-> <<>>]
    /\ eMaxTs = [s \in Sym |-> <<>>]
    /\ eProcessed = [s \in Sym |-> <<>>]
    /\ eStart = [s \in Sym |-> <<>>]

\* the engine as main.py builds it, with the configured default
InitEngine == InitEngineOf({ROLLING_WINDOW_TICKS})

\* _main_loop: the XREAD of all symbol streams is sent; "$" cursors are
\* resolved by the broker when it receives the command
EngineReadStart ==
    /\ ePc = "read"
    /\ ePc' = "reading"
    /\ eResolved' = [s \in Sym |-> Resolve(s, stream_positions[s])]
    /\ eStart' = [s \in Sym |-> IF eStart[s] = <<>>
                                 THEN <<Resolve(s, stream_positions[s])>> ELSE eStart[s]]
    /\ UNCHANGED <<stream, state_analytics, clock, window_size, symbol_data,
                   stream_positions, last_compute_time, eDelivered, ePrevLast,
                   snapshots, pubTimes, eMaxTs, eProcessed, archVars, gatewayVars,
                   auxVars>>

\* _main_loop: stream_read returns after d ms; every entry is processed and
\* the cursor of its stream is set to its id
EngineReadReturn(d) ==
    /\ ePc = "reading"
    /\ clock + d <= MaxClock
    /\ LET got == [s \in Sym |-> XRead(s, eResolved[s], ReadCount)] IN
       /\ (\A s \in Sym : got[s] = <<>>) => d >= BLOCK_MS
       /\ symbol_data' = [s \in Sym |-> ProcessEntries(symbol_data[s], s, got[s])]
       /\ stream_positions' = [s \in Sym |->
              IF got[s] = <<>> THEN stream_positions[s]
              ELSE CursorAfterRead(got[s])]
       /\ eDelivered' = [s \in Sym |->
              IF got[s] = <<>> THEN eDelivered[s] ELSE got[s]]
       /\ ePrevLast' = [s \in Sym |->
              IF got[s] = <<>> \/ eDelivered[s] = <<>> THEN ePrevLast[s]
              ELSE eDelivered[s][Len(eDelivered[s])]]
       /\ eMaxTs' = [s \in Sym |-> MaxSeen(eMaxTs[s], s, got[s])]
       /\ eProcessed' = [s \in Sym |-> eProcessed[s] \o got[s]]
    /\ UNCHANGED eStart
    /\ clock' = clock + d
    /\ ePc' = "compute"
    /\ UNCHANGED <<stream, state_analytics, window_size, last_compute_time,
                   eResolved, snapshots, pubTimes, archVars, gatewayVars, auxVars>>

\* _compute_all_analytics: one `now` for the round; every key that is not
\* throttled gets its snapshot computed and published, and its
\* last_compute_time set to now
EngineCompute(pubOk) ==
    /\ ePc = "compute"
    /\ LET now == clock
           due == {k \in Keys : ~Throttled(k, now)}
           made == {k \in due : Snapshot(k, now) # <<>>}
       IN
       /\ snapshots' = [k \in Keys |->
              IF k \in made THEN Snapshot(k, now) ELSE snapshots[k]]
       /\ state_analytics' = [k \in Keys |->
              IF k \in made /\ pubOk
              THEN HSet(state_analytics[k], Snapshot(k, now)[1])
              ELSE state_analytics[k]]
       /\ pubTimes' = [k \in Keys |->
              IF k \in made /\ pubOk
              THEN (IF pubTimes[k] = <<>> THEN <<now>>
                    ELSE <<pubTimes[k][Len(pubTimes[k])], now>>)
              ELSE pubTimes[k]]
       /\ last_compute_time' = [k \in Keys |->
              IF k \in due THEN <<now>> ELSE last_compute_time[k]]
    /\ ePc' = "read"
    /\ UNCHANGED <<stream, clock, window_size, symbol_data, stream_positions,
                   eResolved, eDelivered, ePrevLast, eMaxTs, eProcessed, eStart,
                   archVars, gatewayVars, auxVars>>

\* ---------------------------------------------------------- the archivist
InitArchivist ==
    /\ last_archived_ts = [s \in Sym |-> Dollar]
    /\ aPc = "sleep"
    /\ aIdx = 1
    /\ aResolved = 0
    /\ aBatch = <<>>
    /\ aLastEntry = Dollar
    /\ aDelivered = [s \in Sym |-> <<>>]
    /\ aPrevLast = [s \in Sym |-> 0]
    /\ cold_ticks = <<>>
    /\ cold_snapshots = {}
    /\ aFailed = <<>>
    /\ aStart = [s \in Sym |-> <<>>]
    /\ runBase = 0
    /\ runLen = [s \in Sym |-> 0]

\* the for loop of _archive_all_symbols moves to the next symbol, or the
\* cycle ends and _main_loop sleeps archive_interval
NextSymbolPc == IF aIdx < Len(SYMBOLS) THEN "ticks" ELSE "sleep"
NextSymbolIdx == IF aIdx < Len(SYMBOLS) THEN aIdx + 1 ELSE 1

\* the entries of a read that parse: int()/float() of the fields succeed
ParsedIds(s, ids) == SelectSeq(ids, LAMBDA i : stream[s][i].ok)

LastEntryId_First(last_id, parsed) ==
    IF parsed = <<>> THEN last_id ELSE parsed[1]

\* last_entry_id after the parse loop of _archive_ticks
LastEntryId(last_id, parsed) ==
    IF parsed = <<>> THEN last_id ELSE parsed[Len(parsed)]

CursorAfterInsert_Stale(last_id, last_entry_id) == last_id

\* the position _archive_ticks stores after a successful insert
CursorAfterInsert(last_id, last_entry_id) == last_entry_id

CursorAfterFailure_Advanced(last_id, last_entry_id) == last_entry_id

\* the position of a symbol after its insert_ticks_batch raised
CursorAfterFailure(last_id, last_entry_id) == last_id

\* rows copied by insert_ticks_batch
Rows(s, ids) == [i \in 1..Len(ids) |->
                    [symbol |-> s, trade_id |-> stream[s][ids[i]].trade_id]]

\* _main_loop: a cycle starts with the first symbol
ArchCycleStart ==
    /\ aPc = "sleep"
    /\ aPc' = "ticks"
    /\ aIdx' = 1
    /\ UNCHANGED <<stream, engineVars, gatewayVars, auxVars, runBase, runLen, last_archived_ts, aResolved, aBatch,
                   aLastEntry, aDelivered, aPrevLast, cold_ticks, cold_snapshots, aFailed, aStart>>

\* _archive_ticks: XREAD from last_archived_ts.get("tick:<symbol>", "$")
ArchReadStart ==
    /\ aPc = "ticks"
    /\ aPc' = "reading"
    /\ aResolved' = Resolve(SYMBOLS[aIdx], last_archived_ts[SYMBOLS[aIdx]])
    /\ aStart' = [aStart EXCEPT ![SYMBOLS[aIdx]] =
            IF @ = <<>>
            THEN <<Resolve(SYMBOLS[aIdx], last_archived_ts[SYMBOLS[aIdx]])>>
            ELSE @]
    /\ UNCHANGED <<stream, engineVars, gatewayVars, auxVars, runBase, runLen, last_archived_ts, aIdx, aBatch,
                   aLastEntry, aDelivered, aPrevLast, cold_ticks, cold_snapshots, aFailed>>

\* _archive_ticks: the read returns entries; they are parsed; without a
\* parsed tick the function returns, otherwise the batch goes to the insert
ArchReadReturn ==
    /\ aPc = "reading"
    /\ LET s == SYMBOLS[aIdx]
           got == XRead(s, aResolved, BatchSize)
           ticks == ParsedIds(s, got)
       IN
       /\ got # <<>>
       /\ aDelivered' = [aDelivered EXCEPT ![s] = got]
       /\ aPrevLast' = [aPrevLast EXCEPT ![s] =
              IF aDelivered[s] = <<>> THEN @
              ELSE aDelivered[s][Len(aDelivered[s])]]
       /\ aBatch' = ticks
       /\ aLastEntry' = LastEntryId(last_archived_ts[s], ticks)
       /\ aPc' = IF ticks = <<>> THEN "analytics" ELSE "inserting"
    /\ UNCHANGED <<stream, engineVars, gatewayVars, auxVars, runBase, runLen, last_archived_ts, aIdx, aResolved,
                   cold_ticks, cold_snapshots, aFailed, aStart>>

\* _archive_ticks: `if not results: return`
ArchReadEmpty ==
    /\ aPc = "reading"
    /\ XRead(SYMBOLS[aIdx], aResolved, BatchSize) = <<>>
    /\ aPc' = "analytics"
    /\ UNCHANGED <<stream, engineVars, gatewayVars, auxVars, runBase, runLen, last_archived_ts, aIdx, aResolved, aBatch,
                   aLastEntry, aDelivered, aPrevLast, cold_ticks, cold_snapshots, aFailed, aStart>>

\* stream_read raises (socket timeout, broker unreachable): the except of
\* _archive_all_symbols logs and the loop goes to the next symbol
ArchReadError ==
    /\ aPc = "reading"
    /\ aPc' = NextSymbolPc
    /\ aIdx' = NextSymbolIdx
    /\ UNCHANGED <<stream, engineVars, gatewayVars, auxVars, runBase, runLen, last_archived_ts, aResolved, aBatch,
                   aLastEntry, aDelivered, aPrevLast, cold_ticks, cold_snapshots, aFailed, aStart>>

\* insert_ticks_batch returns: the rows are in the table and the position
\* of the symbol is updated
ArchInsertOk ==
    /\ aPc = "inserting"
    /\ LET s == SYMBOLS[aIdx] IN
       /\ cold_ticks' = cold_ticks \o Rows(s, aBatch)
       /\ last_archived_ts' = [last_archived_ts EXCEPT ![s] =
              CursorAfterInsert(@, aLastEntry)]
    /\ aPc' = "analytics"
    /\ aBatch' = <<>>
    /\ UNCHANGED <<stream, engineVars, gatewayVars, auxVars, runBase, runLen, aIdx, aResolved, aLastEntry, aDelivered,
                   aPrevLast, cold_snapshots, aFailed, aStart>>

\* insert_ticks_batch raises: COPY inserted nothing, the exception leaves
\* _archive_ticks before the position is updated and skips
\* _archive_analytics of the symbol
ArchInsertFail ==
    /\ aPc = "inserting"
    /\ last_archived_ts' = [last_archived_ts EXCEPT ![SYMBOLS[aIdx]] =
              CursorAfterFailure(@, aLastEntry)]
    /\ aPc' = NextSymbolPc
    /\ aIdx' = NextSymbolIdx
    /\ aBatch' = <<>>
    /\ aFailed' = <<SYMBOLS[aIdx], last_archived_ts[SYMBOLS[aIdx]]>>
    /\ UNCHANGED <<stream, engineVars, gatewayVars, auxVars, runBase, runLen, aResolved, aLastEntry, aDelivered,
                   aPrevLast, cold_ticks, cold_snapshots, aStart>>

\* _archive_analytics: the hash of the symbol, when present, becomes one row
ArchAnalytics ==
    /\ aPc = "analytics"
    /\ LET h == state_analytics[<<SYMBOLS[aIdx]>>] IN
       cold_snapshots' = IF h = <<>> THEN cold_snapshots
                         ELSE cold_snapshots \cup
                              {[symbol |-> h[1].symbol, timestamp |-> h[1].timestamp,
                                tick_count |-> h[1].tick_count]}
    /\ aPc' = NextSymbolPc
    /\ aIdx' = NextSymbolIdx
    /\ UNCHANGED <<stream, engineVars, gatewayVars, auxVars, runBase, runLen, last_archived_ts, aResolved, aBatch,
                   aLastEntry, aDelivered, aPrevLast, cold_ticks, aFailed, aStart>>

\* the archivist is stopped between two cycles and a new one is constructed:
\* its position map is empty; the cold tables are kept
ArchRestart ==
    /\ aPc = "sleep"
    /\ last_archived_ts' = [s \in Sym |-> Dollar]
    /\ aIdx' = 1
    /\ aBatch' = <<>>
    /\ aLastEntry' = Dollar
    /\ aDelivered' = [s \in Sym |-> <<>>]
    /\ aPrevLast' = [s \in Sym |-> 0]
    /\ aFailed' = <<>>
    /\ aStart' = [s \in Sym |-> <<>>]
    /\ runBase' = Len(cold_ticks)
    /\ runLen' = [s \in Sym |-> Len(stream[s])]
    /\ UNCHANGED <<stream, engineVars, gatewayVars, auxVars, aPc, aResolved,
                   cold_ticks, cold_snapshots>>

\* ------------------------------------------------------------ the gateway
Callers == {"flusher", "stop"}

InitGateway ==
    /\ running = TRUE
    /\ lPc = [s \in Sym |-> "connecting"]
    /\ reconnect_delay = [s \in Sym |-> INITIAL_DELAY]
    /\ sockets = {}
    /\ closed = {}
    /\ trade_buffer = [s \in Sym |-> <<>>]
    /\ tick_count = [s \in Sym |-> 0]
    /\ flPc = "sleep"
    /\ stopPc = "idle"
    /\ fIdx = [c \in Callers |-> 0]
    /\ fBatch = [c \in Callers |-> <<>>]
    /\ received = 0
    /\ accepted = [s \in Sym |-> <<>>]
    /\ malformed = {}
    /\ swapped = [s \in Sym |-> <<>>]
    /\ stopRuns = 0
    /\ dropped = {}

BackoffDelay_NoCap(d) == d * 2

\* reconnect_delay = min(reconnect_delay * 2, self.state.max_delay)
BackoffDelay(d) == Min(d * 2, max_delay)

\* `while self.state.running` of a listener, after its with-block is left
ListenerLoop == IF running THEN "connecting" ELSE "done"

\* the listener's connect succeeds: the socket is registered, the delay is
\* reset, the receive loop is entered if the gateway is still running
ListenerConnectOk(s) ==
    /\ lPc[s] = "connecting"
    /\ sockets' = sockets \cup {s}
    /\ reconnect_delay' = [reconnect_delay EXCEPT ![s] = INITIAL_DELAY]
    /\ lPc' = [lPc EXCEPT ![s] = IF running THEN "recv" ELSE "done"]
    /\ UNCHANGED <<stream, engineVars, archVars, auxVars, running, closed, trade_buffer,
                   tick_count, flPc, stopPc, fIdx, fBatch, received, accepted, malformed, swapped, stopRuns,
                   dropped>>

\* the connect raises: the listener sleeps reconnect_delay
ListenerConnectFail(s) ==
    /\ lPc[s] = "connecting"
    /\ lPc' = [lPc EXCEPT ![s] = "backoff"]
    /\ UNCHANGED <<stream, engineVars, archVars, auxVars, running, reconnect_delay,
                   sockets, closed, trade_buffer, tick_count, flPc, stopPc,
                   fIdx, fBatch, received, accepted, malformed, swapped, stopRuns,
                   dropped>>

\* the sleep ends: the delay is doubled up to max_delay, the loop re-checks
ListenerBackoffDone(s) ==
    /\ lPc[s] = "backoff"
    /\ reconnect_delay' = [reconnect_delay EXCEPT ![s] = BackoffDelay(@)]
    /\ lPc' = [lPc EXCEPT ![s] = ListenerLoop]
    /\ UNCHANGED <<stream, engineVars, archVars, auxVars, running, sockets, closed,
                   trade_buffer, tick_count, flPc, stopPc, fIdx, fBatch,
                   received, accepted, malformed, swapped, stopRuns,
                   dropped>>

\* a message arrives on the socket; _buffer_trade appends it when its "e"
\* is "trade"; the receive loop then re-checks running
ListenerRecv(s, kind) ==
    /\ lPc[s] = "recv"
    /\ s \notin closed
    /\ received < MaxMessages
    /\ received' = received + 1
    /\ IF kind = "other"
       THEN UNCHANGED <<trade_buffer, accepted, malformed>>
       ELSE /\ trade_buffer' = [trade_buffer EXCEPT ![s] =
                  Append(@, [t |-> received + 1, ok |-> kind = "trade"])]
            /\ accepted' = [accepted EXCEPT ![s] = Append(@, received + 1)]
            /\ malformed' = IF kind = "trade" THEN malformed
                             ELSE malformed \cup {received + 1}
    /\ lPc' = [lPc EXCEPT ![s] = IF running THEN "recv" ELSE "done"]
    /\ UNCHANGED <<stream, engineVars, archVars, auxVars, running, reconnect_delay,
                   sockets, closed, tick_count, flPc, stopPc, fIdx, fBatch,
                   swapped, stopRuns,
                   dropped>>

\* recv times out after the gateway was told to stop: the loops end
ListenerTimeout(s) ==
    /\ lPc[s] = "recv"
    /\ ~running
    /\ lPc' = [lPc EXCEPT ![s] = "done"]
    /\ UNCHANGED <<stream, engineVars, archVars, auxVars, running, reconnect_delay,
                   sockets, closed, trade_buffer, tick_count, flPc, stopPc,
                   fIdx, fBatch, received, accepted, malformed, swapped, stopRuns,
                   dropped>>

\* recv raises ConnectionClosed: break, the with-block is left and the
\* outer loop connects again at once
ListenerClosed(s) ==
    /\ lPc[s] = "recv"
    /\ lPc' = [lPc EXCEPT ![s] = ListenerLoop]
    /\ UNCHANGED <<stream, engineVars, archVars, auxVars, running, reconnect_delay,
                   sockets, closed, trade_buffer, tick_count, flPc, stopPc,
                   fIdx, fBatch, received, accepted, malformed, swapped, stopRuns,
                   dropped>>

\* another exception leaves the with-block: the listener sleeps
ListenerError(s) ==
    /\ lPc[s] = "recv"
    /\ lPc' = [lPc EXCEPT ![s] = "backoff"]
    /\ UNCHANGED <<stream, engineVars, archVars, auxVars, running, reconnect_delay,
                   sockets, closed, trade_buffer, tick_count, flPc, stopPc,
                   fIdx, fBatch, received, accepted, malformed, swapped, stopRuns,
                   dropped>>

RECURSIVE FlushRun_NoClear(_, _, _)
FlushRun_NoClear(i, buf, tc) ==
    IF i > Len(SYMBOLS) THEN [buf |-> buf, tc |-> tc, idx |-> 0, batch |-> <<>>]
    ELSE
      LET s == SYMBOLS[i]
          trades == buf[s]
          keep == [buf EXCEPT ![s] = SubSeq(trades, Len(trades), Len(trades))]
      IN  IF trades = <<>> THEN FlushRun_NoClear(i + 1, buf, tc)
          ELSE [buf |-> keep, tc |-> tc, idx |-> i, batch |-> trades]

\* the part of _flush_all_buffers that runs without suspending, from the
\* symbol of index i: empty buffers are skipped; a buffer is swapped; a
\* batch holding a malformed trade raises while the pipeline is built and
\* is dropped; a well-formed batch suspends at pipeline.execute().
\* idx = 0 means the loop over the symbols has ended.
RECURSIVE FlushRun(_, _, _)
FlushRun(i, buf, tc) ==
    IF i > Len(SYMBOLS) THEN [buf |-> buf, tc |-> tc, idx |-> 0, batch |-> <<>>]
    ELSE
      LET s == SYMBOLS[i]
          trades == buf[s]
          bad == {j \in 1..Len(trades) : ~trades[j].ok}
          built == IF bad = {} THEN Len(trades)
                   ELSE (CHOOSE j \in bad : \A k \in bad : j <= k) - 1
          buf2 == [buf EXCEPT ![s] = <<>>]
          tc2 == [tc EXCEPT ![s] = @ + built]
      IN  IF trades = <<>> THEN FlushRun(i + 1, buf, tc)
          ELSE IF bad # {} THEN FlushRun(i + 1, buf2, tc2)
          ELSE [buf |-> buf2, tc |-> tc2, idx |-> i, batch |-> trades]

\* the entries a pipeline adds to the stream of a symbol
Entries(trades) ==
    [j \in 1..Len(trades) |->
        [trade_id |-> trades[j].t, price |-> 1, qty |-> 1, ok |-> TRUE,
         timestamp |-> StartClock]]

\* the batches swapped out when the buffers go from trade_buffer to buf
SwapLog(buf) ==
    [s \in Sym |-> IF buf[s] # trade_buffer[s]
                   THEN Append(swapped[s], trade_buffer[s]) ELSE swapped[s]]

\* self.state.last_tick_time[symbol] = int(time.time() * 1000), written
\* with tick_count for every tick put on a pipeline: the symbols whose
\* count goes from tick_count to tc take the time of this run
FlushTimes(tc) ==
    [s \in Sym |-> IF tc[s] # tick_count[s] THEN gwClock ELSE last_tick_time[s]]

\* _buffer_flusher: the sleep ends and _flush_all_buffers is called
FlusherWake ==
    /\ flPc = "sleep"
    /\ LET r == FlushRun(1, trade_buffer, tick_count) IN
       /\ trade_buffer' = r.buf
       /\ swapped' = SwapLog(r.buf)
       /\ tick_count' = r.tc
       /\ last_tick_time' = FlushTimes(r.tc)
       /\ fIdx' = [fIdx EXCEPT !["flusher"] = r.idx]
       /\ fBatch' = [fBatch EXCEPT !["flusher"] = r.batch]
       /\ flPc' = IF r.idx # 0 THEN "flushing"
                  ELSE IF running THEN "sleep" ELSE "done"
    /\ UNCHANGED <<stream, engineVars, archVars, alertVars, logVars, orchVars, tickVars, ohlcVars, adfVars, shutVars, ackVars,
                   gwClock, beatIdx, beat, running, lPc, reconnect_delay,
                   sockets, closed, stopPc, received, accepted, malformed, stopRuns,
                   dropped>>

OnFlushError_Requeue(buf, s, batch) == [buf EXCEPT ![s] = batch \o @]

\* except Exception: the error is logged; the buffers are left as they
\* are and the batch in hand is let go
OnFlushError(buf, s, batch) == buf

\* pipeline.execute() of caller c returns (ok) or raises: the entries are
\* in the stream or the batch is lost; the loop goes on with the next symbol
FlushExec(c, ok) ==
    /\ IF c = "stop" THEN stopPc = "flushing" ELSE flPc = "flushing"
    /\ stream' = IF ok
                 THEN [stream EXCEPT ![SYMBOLS[fIdx[c]]] = @ \o Entries(fBatch[c])]
                 ELSE stream
    /\ dropped' = IF ok THEN dropped
                  ELSE dropped \cup {fBatch[c][j].t : j \in 1..Len(fBatch[c])}
    /\ LET kept == IF ok THEN trade_buffer
                   ELSE OnFlushError(trade_buffer, SYMBOLS[fIdx[c]], fBatch[c])
           r == FlushRun(fIdx[c] + 1, kept, tick_count) IN
       /\ trade_buffer' = r.buf
       /\ swapped' = SwapLog(r.buf)
       /\ tick_count' = r.tc
       /\ last_tick_time' = FlushTimes(r.tc)
       /\ fIdx' = [fIdx EXCEPT ![c] = r.idx]
       /\ fBatch' = [fBatch EXCEPT ![c] = r.batch]
       /\ IF c = "stop"
          THEN /\ stopPc' = IF r.idx # 0 THEN "flushing" ELSE "closing"
               /\ UNCHANGED flPc
          ELSE /\ flPc' = IF r.idx # 0 THEN "flushing"
                          ELSE IF running THEN "sleep" ELSE "done"
               /\ UNCHANGED stopPc
    /\ UNCHANGED <<engineVars, archVars, alertVars, logVars, orchVars, tickVars, ohlcVars, adfVars, shutVars, ackVars,
                   gwClock, beatIdx, beat, running, lPc, reconnect_delay,
                   sockets, closed, received, accepted, malformed, stopRuns>>

\* stop(): running = False, then _flush_all_buffers
StopBegin ==
    /\ stopPc = "idle"
    /\ running' = FALSE
    /\ stopRuns' = stopRuns + 1
    /\ LET r == FlushRun(1, trade_buffer, tick_count) IN
       /\ trade_buffer' = r.buf
       /\ swapped' = SwapLog(r.buf)
       /\ tick_count' = r.tc
       /\ last_tick_time' = FlushTimes(r.tc)
       /\ fIdx' = [fIdx EXCEPT !["stop"] = r.idx]
       /\ fBatch' = [fBatch EXCEPT !["stop"] = r.batch]
       /\ stopPc' = IF r.idx # 0 THEN "flushing" ELSE "closing"
    /\ UNCHANGED <<stream, engineVars, archVars, alertVars, logVars, orchVars, tickVars, ohlcVars, adfVars, shutVars, ackVars,
                   gwClock, beatIdx, beat, lPc, reconnect_delay, sockets,
                   closed, flPc, received, accepted, malformed, dropped>>

\* stop(): every registered socket is closed
StopCloseSockets ==
    /\ stopPc = "closing"
    /\ closed' = sockets
    /\ stopPc' = "disconnect"
    /\ UNCHANGED <<stream, engineVars, archVars, auxVars, running, lPc, reconnect_delay,
                   sockets, trade_buffer, tick_count, flPc, fIdx, fBatch,
                   received, accepted, malformed, swapped, stopRuns,
                   dropped>>

\* stop(): the broker connection is closed and stop() returns
StopDisconnect ==
    /\ stopPc = "disconnect"
    /\ stopPc' = "done"
    /\ UNCHANGED <<stream, engineVars, archVars, auxVars, running, lPc, reconnect_delay,
                   sockets, closed, trade_buffer, tick_count, flPc, fIdx, fBatch,
                   received, accepted, malformed, swapped, stopRuns,
                   dropped>>

\* the tasks of start() have ended: its finally block calls stop() again
StopFinally ==
    /\ stopPc = "done"
    /\ stopRuns = 1
    /\ flPc = "done"
    /\ \A s \in Sym : lPc[s] = "done"
    /\ stopRuns' = stopRuns + 1
    /\ LET r == FlushRun(1, trade_buffer, tick_count) IN
       /\ trade_buffer' = r.buf
       /\ swapped' = SwapLog(r.buf)
       /\ tick_count' = r.tc
       /\ last_tick_time' = FlushTimes(r.tc)
       /\ fIdx' = [fIdx EXCEPT !["stop"] = r.idx]
       /\ fBatch' = [fBatch EXCEPT !["stop"] = r.batch]
       /\ stopPc' = IF r.idx # 0 THEN "flushing" ELSE "closing"
    /\ UNCHANGED <<stream, engineVars, archVars, alertVars, logVars, orchVars, tickVars, ohlcVars, adfVars, shutVars, ackVars,
                   gwClock, beatIdx, beat, running, lPc, reconnect_delay,
                   sockets, closed, flPc, received, accepted, malformed, dropped>>

\* ----------------------------------------------------------- the heartbeat
\* time.time() of the gateway moves on
GatewayClockTick ==
    /\ gwClock < StartClock + MaxBeatClock
    /\ gwClock' = gwClock + 1
    /\ UNCHANGED <<stream, engineVars, archVars, gatewayVars, alertVars, logVars,
                   orchVars, tickVars, ohlcVars, adfVars, shutVars, ackVars,
                   last_tick_time, beatIdx, beat>>

Freshness_NoSentinel(now, last_time) == now - last_time

\* freshness = int(time.time() * 1000) - last_time if last_time else -1
Freshness(now, last_time) == IF last_time # 0 THEN now - last_time ELSE -1

\* a flush has put a tick of symbol s on a pipeline: one of the batches
\* swapped out of its buffer begins with a well-formed trade
EverFlushed(s) == \E i \in 1..Len(swapped[s]) : swapped[s][i][1].ok

\* the heartbeat of one symbol: count, last_time and freshness are read
\* without suspending; flushed and connected record the state it was
\* taken in
BeatOf(s) ==
    [count |-> tick_count[s], last_time |-> last_tick_time[s], now |-> gwClock,
     freshness |-> Freshness(gwClock, last_tick_time[s]),
     flushed |-> EverFlushed(s), connected |-> lPc[s] = "recv"]

\* _heartbeat: the sleep of 30 s ends and the heartbeat of the first symbol
\* is logged; the task then awaits its publish
HeartbeatLog ==
    /\ hbPc = "sleep"
    /\ beatIdx = 0
    /\ beat' = [beat EXCEPT ![SYMBOLS[1]] = <<BeatOf(SYMBOLS[1])>>]
    /\ beatIdx' = 1
    /\ UNCHANGED <<stream, engineVars, archVars, gatewayVars, alertVars, logVars,
                   orchVars, tickVars, ohlcVars, adfVars, shutVars, ackVars,
                   gwClock, last_tick_time>>

\* the publish returns: the next symbol's heartbeat is logged, or the loop
\* re-checks running and sleeps again
HeartbeatPublished ==
    /\ beatIdx > 0
    /\ IF beatIdx < Len(SYMBOLS)
       THEN /\ beat' = [beat EXCEPT ![SYMBOLS[beatIdx + 1]] =
                           <<BeatOf(SYMBOLS[beatIdx + 1])>>]
            /\ beatIdx' = beatIdx + 1
            /\ UNCHANGED hbPc
       ELSE /\ beatIdx' = 0
            /\ hbPc' = IF running THEN "sleep" ELSE "done"
            /\ UNCHANGED beat
    /\ UNCHANGED <<stream, engineVars, archVars, gatewayVars, alertVars, logVars,
                   orchVars, tickVars, ohlcVars, adfVars, ackVars, closing,
                   closeLeft, closeSize, gwClock, last_tick_time>>

\* -------------------------------------------------------------- alerts
AlertIds == 1..MaxAlerts

InitAlerts ==
    /\ generated = <<>>
    /\ chkPc = "idle"
    /\ alert_hash = [i \in AlertIds |-> "none"]
    /\ alerts_active = {}
    /\ channel_alerts = {}
    /\ alert_old = {}
    /\ lastScan = FALSE
    /\ chkSnap = <<>>

AlertsFor_NonStrict(z) ==
    IF z = <<>> THEN <<>>
    ELSE IF z[1] >= alert_z_threshold THEN <<"z_score_high">>
    ELSE IF z[1] <= -alert_z_threshold THEN <<"z_score_low">>
    ELSE <<>>

\* the alert types _check_alerts builds for a snapshot with z_score z
\* (<<>> is None)
AlertsFor(z) ==
    IF z = <<>> THEN <<>>
    ELSE IF z[1] > alert_z_threshold THEN <<"z_score_high">>
    ELSE IF z[1] < -alert_z_threshold THEN <<"z_score_low">>
    ELSE <<>>

\* Alert(...) as built by _check_alerts
MakeAlert(type, k, z) ==
    [alert_type |-> type, symbol |-> k, severity |-> "warning", value |-> z[1],
     threshold |-> IF type = "z_score_high" THEN alert_z_threshold
                   ELSE -alert_z_threshold]

\* _check_alerts is called with a snapshot of key k whose z_score is z; a
\* single-symbol snapshot has none; the alert built is handed to add_alert
CheckAlerts(k, z) ==
    /\ chkPc = "idle"
    /\ (Len(k) = 1) <=> (z = <<>>)
    /\ Len(generated) + Len(AlertsFor(z)) <= MaxAlerts
    /\ (IF chkSnap = <<>> THEN 0 ELSE chkSnap[1].n) < MaxEvals
    /\ chkSnap' = <<[key |-> k, z_score |-> z,
                     n |-> (IF chkSnap = <<>> THEN 0 ELSE chkSnap[1].n) + 1]>>
    /\ generated' = generated \o
            [i \in 1..Len(AlertsFor(z)) |-> MakeAlert(AlertsFor(z)[i], k, z)]
    /\ chkPc' = IF AlertsFor(z) = <<>> THEN "idle" ELSE "hset"
    /\ UNCHANGED <<stream, engineVars, archVars, gatewayVars, logVars, orchVars, fnVars,
                   shutVars, alert_hash,
                   alerts_active, channel_alerts, alert_old, lastScan>>

\* add_alert: HSET alert:<id>; an exception ends the handling of the alert
AddAlertHSet(ok) ==
    /\ chkPc = "hset"
    /\ alert_hash' = IF ok THEN [alert_hash EXCEPT ![Len(generated)] = "no_ttl"]
                     ELSE alert_hash
    /\ chkPc' = IF ok THEN "expire" ELSE "idle"
    /\ lastScan' = FALSE
    /\ UNCHANGED <<stream, engineVars, archVars, gatewayVars, logVars, orchVars, fnVars,
                   shutVars, generated,
                   alerts_active, channel_alerts, alert_old, chkSnap>>

\* add_alert: EXPIRE alert:<id>
AddAlertExpire(ok) ==
    /\ chkPc = "expire"
    /\ alert_hash' = IF ok THEN [alert_hash EXCEPT ![Len(generated)] = "live"]
                     ELSE alert_hash
    /\ chkPc' = IF ok THEN "zadd" ELSE "idle"
    /\ lastScan' = FALSE
    /\ UNCHANGED <<stream, engineVars, archVars, gatewayVars, logVars, orchVars, fnVars,
                   shutVars, generated,
                   alerts_active, channel_alerts, alert_old, chkSnap>>

\* add_alert: ZADD alerts:active
AddAlertZAdd(ok) ==
    /\ chkPc = "zadd"
    /\ alerts_active' = IF ok THEN alerts_active \cup {Len(generated)}
                        ELSE alerts_active
    /\ chkPc' = IF ok THEN "publish" ELSE "idle"
    /\ lastScan' = FALSE
    /\ UNCHANGED <<stream, engineVars, archVars, gatewayVars, logVars, orchVars, fnVars,
                   shutVars, generated,
                   alert_hash, channel_alerts, alert_old, chkSnap>>

\* _check_alerts: publish on channel:alerts after add_alert returned
PublishAlert(ok) ==
    /\ chkPc = "publish"
    /\ channel_alerts' = IF ok THEN channel_alerts \cup {Len(generated)}
                         ELSE channel_alerts
    /\ chkPc' = "idle"
    /\ UNCHANGED <<stream, engineVars, archVars, gatewayVars, logVars, orchVars, fnVars,
                   shutVars, generated,
                   alert_hash, alerts_active, alert_old, lastScan, chkSnap>>

\* time passes: the timestamp of alert i is now max_age_hours back
AlertGrowsOld(i) ==
    /\ i \in 1..Len(generated)
    /\ i \notin alert_old
    /\ alert_old' = alert_old \cup {i}
    /\ lastScan' = FALSE
    /\ UNCHANGED <<stream, engineVars, archVars, gatewayVars, logVars, orchVars, fnVars,
                   shutVars, generated, chkPc,
                   alert_hash, alerts_active, channel_alerts, chkSnap>>

\* the TTL of alert:<i>, set ttl_hours after it was stored, runs out
AlertHashExpires(i) ==
    /\ i \in alert_old
    /\ alert_hash[i] = "live"
    /\ alert_hash' = [alert_hash EXCEPT ![i] = "expired"]
    /\ lastScan' = FALSE
    /\ UNCHANGED <<stream, engineVars, archVars, gatewayVars, logVars, orchVars, fnVars,
                   shutVars, generated, chkPc,
                   alerts_active, channel_alerts, alert_old, chkSnap>>

\* the alerts get_active_alerts returns: the members whose hash is there
ScanResult == {i \in alerts_active : alert_hash[i] \in {"no_ttl", "live"}}

\* get_active_alerts: ZREVRANGE and one HGETALL per id; nothing is written
GetActiveAlerts ==
    /\ lastScan' = TRUE
    /\ UNCHANGED <<stream, engineVars, archVars, gatewayVars, logVars, orchVars, fnVars,
                   shutVars, generated, chkPc,
                   alert_hash, alerts_active, channel_alerts, alert_old, chkSnap>>

\* cleanup_old_alerts: ZREMRANGEBYSCORE alerts:active -inf min_timestamp
CleanupOldAlerts ==
    /\ alerts_active' = alerts_active \ alert_old
    /\ lastScan' = FALSE
    /\ UNCHANGED <<stream, engineVars, archVars, gatewayVars, logVars, orchVars, fnVars,
                   shutVars, generated, chkPc,
                   alert_hash, channel_alerts, alert_old, chkSnap>>

\* an alert:<id> key that exists: written by add_alert without or with
\* its TTL, or written anew by acknowledge_alert
HashExists(i) == alert_hash[i] \in {"no_ttl", "live", "ack_only"}

\* acknowledge_alert: EXISTS alert:<id>; False is returned when it does not
AckExists(i) ==
    /\ ackPc = <<>>
    /\ i \in 1..Len(generated)
    /\ ackPc' = IF HashExists(i) THEN <<i>> ELSE <<>>
    /\ UNCHANGED <<stream, engineVars, archVars, gatewayVars, alertVars, logVars,
                   orchVars, tickVars, ohlcVars, adfVars, beatVars, shutVars,
                   scanPc, scanOut>>

\* HSET alert:<id> acknowledged 1: a field of an existing hash is written
\* and its TTL stays as it is; on a key that is not there the command
\* makes a hash of that one field, which has no TTL
AfterAckHSet(h) == IF h \in {"none", "expired"} THEN "ack_only" ELSE h

\* acknowledge_alert: the HSET that follows the EXISTS
AckHSet ==
    /\ ackPc # <<>>
    /\ alert_hash' = [alert_hash EXCEPT ![ackPc[1]] = AfterAckHSet(@)]
    /\ ackPc' = <<>>
    /\ lastScan' = FALSE
    /\ UNCHANGED <<stream, engineVars, archVars, gatewayVars, logVars, orchVars,
                   tickVars, ohlcVars, adfVars, beatVars, shutVars, generated, chkPc,
                   alerts_active, channel_alerts, alert_old, chkSnap, scanPc, scanOut>>

\* the ids of the sorted set S from the highest score down; the score of
\* an alert is its timestamp, and the alerts of the one configured pair
\* are built in the order of their timestamps
RECURSIVE Descending(_)
Descending(S) ==
    IF S = {} THEN <<>>
    ELSE LET m == CHOOSE i \in S : \A j \in S : j <= i
         IN  <<m>> \o Descending(S \ {m})

\* ZREVRANGE key start stop: a negative index counts from the end of the
\* set, stop is cut to the last rank, and the range is empty when start
\* lies after stop or beyond the set
ZRevRange(S, start, stop) ==
    LET n == Cardinality(S)
        a == IF start < 0 THEN Max(n + start, 0) ELSE start
        b == IF stop < 0 THEN n + stop ELSE Min(stop, n - 1)
    IN  IF a > b \/ a >= n THEN <<>> ELSE SubSeq(Descending(S), a + 1, b + 1)

\* symbol is None, or the symbol field of the alert equals it
SymbolMatches(i, symbol) == symbol = <<>> \/ generated[i].symbol = symbol[1]

\* the call returns what it has collected
ScanReturn(call) ==
    /\ scanOut' = <<call>>
    /\ scanPc' = <<>>

\* get_active_alerts(limit, symbol): ZREVRANGE alerts:active 0 limit-1;
\* with no id to look up the call returns at once
ScanBegin(limit, symbol) ==
    /\ scanPc = <<>>
    /\ LET ids == ZRevRange(alerts_active, 0, limit - 1)
           call == [limit |-> limit, symbol |-> symbol, ranked |-> ids,
                    active |-> alerts_active, left |-> ids, found |-> {},
                    alerts |-> <<>>]
       IN  IF ids = <<>> THEN ScanReturn(call)
           ELSE scanPc' = <<call>> /\ UNCHANGED scanOut
    /\ UNCHANGED <<stream, engineVars, archVars, gatewayVars, alertVars, logVars,
                   orchVars, tickVars, ohlcVars, adfVars, beatVars, shutVars, ackPc>>

\* HGETALL alert:<id> of the next id returns: an empty answer (the key is
\* gone) is skipped, an alert of another symbol is skipped, any other is
\* appended; after the last id the call returns
ScanHGetAll ==
    /\ scanPc # <<>>
    /\ LET c == scanPc[1]
           i == Head(c.left)
           there == HashExists(i)
           call == [c EXCEPT !.left = Tail(c.left),
                             !.found = IF there THEN @ \cup {i} ELSE @,
                             !.alerts = IF there /\ SymbolMatches(i, c.symbol)
                                        THEN Append(@, i) ELSE @]
       IN  IF call.left = <<>> THEN ScanReturn(call)
           ELSE scanPc' = <<call>> /\ UNCHANGED scanOut
    /\ UNCHANGED <<stream, engineVars, archVars, gatewayVars, alertVars, logVars,
                   orchVars, tickVars, ohlcVars, adfVars, beatVars, shutVars, ackPc>>

\* ------------------------------------------------------------ the log sink
LogServices == {"market_gateway", "quant_engine"}

\* operations that are always logged
AlwaysOps == {"connect", "disconnect", "error", "heartbeat"}

LimitedOps_WithHashWrite == {"stream_write", "ts_write", "hash_write"}

\* operations that are rate limited
LimitedOps == {"stream_write", "ts_write"}

LogOps == AlwaysOps \cup {"stream_write", "ts_write", "hash_write"}

\* f"{service}:{operation}"
LogKeys == LogServices \X {"stream_write", "ts_write", "hash_write"}

InitLog ==
    /\ logClock = StartClock
    /\ last_operation_log = [k \in LogKeys |-> <<>>]
    /\ operation_counts = [k \in LogKeys |-> 0]
    /\ lastLog = <<>>
    /\ logReceived = [k \in LogKeys |-> 0]
    /\ logEmittedSum = [k \in LogKeys |-> 0]
    /\ logEmitTimes = [k \in LogKeys |-> <<>>]

RateLimited_Inverted(now, last_time) == now - last_time > rate_limit_interval

\* now - last_time < self._rate_limit_interval
RateLimited(now, last_time) == now - last_time < rate_limit_interval

\* _process_log_message of an entry of service sv and operation op, d ms
\* after the entry before: _should_log decides; an entry that passes is
\* formatted and emitted, with _aggregated_count when _should_log set it
ProcessLog(sv, op, d) ==
    /\ (IF lastLog = <<>> THEN 0 ELSE lastLog[1].n) < MaxLogs
    /\ logClock' = logClock + d
    /\ LET now == logClock + d
           key == <<sv, op>>
           n == (IF lastLog = <<>> THEN 0 ELSE lastLog[1].n) + 1
           last_time == IF last_operation_log[key] = <<>> THEN 0
                        ELSE last_operation_log[key][1]
           count == operation_counts[key] + 1
       IN
       IF op \in AlwaysOps \/ op \notin LimitedOps
       THEN /\ lastLog' = <<[service |-> sv, operation |-> op, n |-> n,
                             passed |-> TRUE, aggregated_count |-> <<>>]>>
            /\ UNCHANGED <<last_operation_log, operation_counts, logReceived,
                           logEmittedSum, logEmitTimes>>
       ELSE /\ logReceived' = [logReceived EXCEPT ![key] = @ + 1]
            /\ IF RateLimited(now, last_time)
               THEN /\ operation_counts' = [operation_counts EXCEPT ![key] = count]
                    /\ lastLog' = <<[service |-> sv, operation |-> op, n |-> n,
                                     passed |-> FALSE, aggregated_count |-> <<>>]>>
                    /\ UNCHANGED <<last_operation_log, logEmittedSum, logEmitTimes>>
               ELSE /\ operation_counts' = [operation_counts EXCEPT ![key] = 0]
                    /\ last_operation_log' =
                          [last_operation_log EXCEPT ![key] = <<now>>]
                    /\ lastLog' = <<[service |-> sv, operation |-> op, n |-> n,
                                     passed |-> TRUE, aggregated_count |-> <<count>>]>>
                    /\ logEmittedSum' = [logEmittedSum EXCEPT ![key] = @ + count]
                    /\ logEmitTimes' = [logEmitTimes EXCEPT ![key] =
                          IF @ = <<>> THEN <<now>> ELSE <<@[Len(@)], now>>]
    /\ UNCHANGED <<stream, engineVars, archVars, gatewayVars, alertVars, orchVars, fnVars,
                   shutVars>>

\* --------------------------------------------------------- the orchestrator
\* the tasks in the order start_all_services creates them
TaskOrder == <<"market_gateway", "quant_engine", "central_logger", "archivist">>

\* the services in the order stop_all_services calls their stop()
StopOrder == <<"market_gateway", "quant_engine", "central_logger", "archivist">>

ServiceNames == {TaskOrder[i] : i \in 1..Len(TaskOrder)}

\* asyncio.sleep at the head of _run_quant_engine and _run_archivist, in s
StartDelay ==
    [s \in ServiceNames |->
        IF s = "quant_engine" THEN 2 ELSE IF s = "archivist" THEN 5 ELSE 0]

\* start_all_services up to the await of gather: the four tasks exist and
\* none has run
InitOrch ==
    /\ orchClock = 0
    /\ taskPc = [s \in ServiceNames |-> "created"]
    /\ taskWake = [s \in ServiceNames |-> 0]
    /\ svc_running = [s \in ServiceNames |-> TRUE]
    /\ startLog = <<>>
    /\ stopLog = <<>>
    /\ orchPc = 0
    /\ orchPass = "signal"

OrchFrame ==
    UNCHANGED <<stream, engineVars, archVars, gatewayVars, alertVars, logVars, fnVars,
                shutVars>>

\* the first step of the i-th task, the tasks before it having taken theirs:
\* it calls start() of its service, or sleeps first
TaskBegin(i) ==
    LET s == TaskOrder[i] IN
    /\ taskPc[s] = "created"
    /\ \A j \in 1..(i - 1) : taskPc[TaskOrder[j]] # "created"
    /\ IF StartDelay[s] = 0
       THEN /\ taskPc' = [taskPc EXCEPT ![s] = "running"]
            /\ startLog' = Append(startLog, s)
            /\ UNCHANGED taskWake
       ELSE /\ taskPc' = [taskPc EXCEPT ![s] = "sleeping"]
            /\ taskWake' = [taskWake EXCEPT ![s] = orchClock + StartDelay[s]]
            /\ UNCHANGED startLog
    /\ UNCHANGED <<orchClock, svc_running, stopLog, orchPc, orchPass>>
    /\ OrchFrame

\* the sleep of a task is over: it calls start() of its service
TaskWake(s) ==
    /\ taskPc[s] = "sleeping"
    /\ orchClock >= taskWake[s]
    /\ taskPc' = [taskPc EXCEPT ![s] = "running"]
    /\ startLog' = Append(startLog, s)
    /\ UNCHANGED <<orchClock, taskWake, svc_running, stopLog, orchPc, orchPass>>
    /\ OrchFrame

\* a second passes; a task whose sleep is over runs before the next one does
OrchTick ==
    /\ orchClock < MaxOrchClock
    /\ \A s \in ServiceNames : taskPc[s] # "created"
    /\ \A s \in ServiceNames : taskPc[s] = "sleeping" => orchClock < taskWake[s]
    /\ orchClock' = orchClock + 1
    /\ UNCHANGED <<taskPc, taskWake, svc_running, startLog, stopLog, orchPc, orchPass>>
    /\ OrchFrame

\* SIGINT or SIGTERM: the handler creates the task of stop_all_services
Signal ==
    /\ orchPc = 0
    /\ \A s \in ServiceNames : taskPc[s] # "created"
    /\ orchPc' = 1
    /\ UNCHANGED <<orchClock, taskPc, taskWake, svc_running, startLog, stopLog, orchPass>>
    /\ OrchFrame

\* stop_all_services awaits stop() of the i-th service of its list
StopService(i) ==
    LET s == StopOrder[i] IN
    /\ orchPc = i
    /\ svc_running' = [svc_running EXCEPT ![s] = FALSE]
    /\ stopLog' = Append(stopLog, [service |-> s, by |-> orchPass])
    /\ orchPc' = i + 1
    /\ UNCHANGED <<orchClock, taskPc, taskWake, startLog, orchPass>>
    /\ OrchFrame

\* stop_all_services cancels the tasks that are not done: a task cancelled
\* in its sleep ends without calling start() or stop()
CancelTasks ==
    /\ orchPc = 5
    /\ taskPc' = [s \in ServiceNames |->
                     IF taskPc[s] = "sleeping" THEN "done" ELSE taskPc[s]]
    /\ orchPc' = 6
    /\ UNCHANGED <<orchClock, taskWake, svc_running, startLog, stopLog, orchPass>>
    /\ OrchFrame

\* the main loop of a service sees running = False (or is cancelled) and
\* start() runs its finally block, which calls stop()
TaskFinally(s) ==
    /\ taskPc[s] = "running"
    /\ ~svc_running[s]
    /\ taskPc' = [taskPc EXCEPT ![s] = "done"]
    /\ stopLog' = Append(stopLog, [service |-> s, by |-> "finally"])
    /\ UNCHANGED <<orchClock, taskWake, svc_running, startLog, orchPc, orchPass>>
    /\ OrchFrame

\* gather returns when every task is done, and the finally block of main
\* calls stop_all_services again
MainFinally ==
    /\ orchPc = 6
    /\ orchPass = "signal"
    /\ \A s \in ServiceNames : taskPc[s] = "done"
    /\ orchPass' = "main"
    /\ orchPc' = 1
    /\ UNCHANGED <<orchClock, taskPc, taskWake, svc_running, startLog, stopLog>>
    /\ OrchFrame

\* ------------------------------------------------------------ the models
\* the state of the services, left alone by the conversions
ServiceFrame ==
    UNCHANGED <<stream, engineVars, archVars, gatewayVars, alertVars, logVars, orchVars,
                shutVars, beatVars, ackVars>>

DigitChars == <<"0", "1", "2", "3", "4", "5", "6", "7", "8", "9">>

\* str(n) of an int: its decimal digits, "-" first when negative
RECURSIVE IntToStr(_)
IntToStr(n) ==
    IF n < 0 THEN <<"-">> \o IntToStr(0 - n)
    ELSE IF n < 10 THEN <<DigitChars[n + 1]>>
    ELSE IntToStr(n \div 10) \o <<DigitChars[(n % 10) + 1]>>

DigitValue(c) == (CHOOSE i \in 1..10 : DigitChars[i] = c) - 1

\* int(s) of a decimal string
RECURSIVE StrToInt(_)
StrToInt(s) ==
    IF s[1] = "-" THEN 0 - StrToInt(Tail(s))
    ELSE IF Len(s) = 1 THEN DigitValue(s[1])
    ELSE StrToInt(SubSeq(s, 1, Len(s) - 1)) * 10 + DigitValue(s[Len(s)])

\* a float with one decimal is held as its number of tenths.
\* str(x) of such a float: "<whole>.<tenth>"
FloatToStr(x) == IntToStr(x \div 10) \o <<".">> \o IntToStr(x % 10)

\* float(s) of such a string
StrToFloat(s) ==
    LET dot == CHOOSE i \in 1..Len(s) : s[i] = "." IN
    StrToInt(SubSeq(s, 1, dot - 1)) * 10 + StrToInt(SubSeq(s, dot + 1, Len(s)))

BoolToStr_Word(b) == IF b THEN "true" ELSE "false"

\* "1" if self.is_buyer_maker else "0"
BoolToStr(b) == IF b THEN "1" ELSE "0"

\* TickData.to_redis_dict
to_redis_dict(tick) ==
    [symbol |-> tick.symbol,
     trade_id |-> IntToStr(tick.trade_id),
     price |-> FloatToStr(tick.price),
     qty |-> FloatToStr(tick.qty),
     timestamp |-> IntToStr(tick.timestamp),
     is_buyer_maker |-> BoolToStr(tick.is_buyer_maker)]

\* TickData.from_redis_dict
from_redis_dict(data) ==
    [symbol |-> data.symbol,
     trade_id |-> StrToInt(data.trade_id),
     price |-> StrToFloat(data.price),
     qty |-> StrToFloat(data.qty),
     timestamp |-> StrToInt(data.timestamp),
     is_buyer_maker |-> data.is_buyer_maker = "1"]

\* the ticks that are converted: any symbol, ids up to MaxTradeId, prices
\* and quantities with one decimal, timestamps in ms
TickInputs ==
    [symbol : Sym \cup {""}, trade_id : 0..MaxTradeId, price : {5, 1234},
     qty : {1, 20}, timestamp : {0, StartClock}, is_buyer_maker : BOOLEAN]

InitModels ==
    /\ tickIn = <<>>
    /\ tickRedis = <<>>
    /\ tickOut = <<>>
    /\ ohlcTicks = <<>>
    /\ ohlcOut = <<>>
    /\ adfIn = <<>>
    /\ adfOut = <<>>

\* tick.to_redis_dict()
TickToRedis(tick) ==
    /\ tickIn' = <<tick>>
    /\ tickRedis' = <<to_redis_dict(tick)>>
    /\ tickOut' = <<>>
    /\ UNCHANGED <<ohlcVars, adfVars>>
    /\ ServiceFrame

\* TickData.from_redis_dict(d) of the dict just produced
TickFromRedis ==
    /\ tickRedis # <<>>
    /\ tickOut = <<>>
    /\ tickOut' = <<from_redis_dict(tickRedis[1])>>
    /\ UNCHANGED <<tickIn, tickRedis>>
    /\ UNCHANGED <<ohlcVars, adfVars>>
    /\ ServiceFrame

\* ------------------------------------------------------------- OHLC bars
\* interval_seconds of the bars
interval_seconds == 1

\* the elements of a finite set of integers in ascending order
RECURSIVE SortedSeq(_)
SortedSeq(S) ==
    IF S = {} THEN <<>>
    ELSE LET m == CHOOSE x \in S : \A y \in S : x <= y
         IN  <<m>> \o SortedSeq(S \ {m})

\* (ts_seconds // interval_seconds) * interval_seconds, and time_bucket
BucketOf(tick) == ((tick.timestamp \div 1000) \div interval_seconds) * interval_seconds

BucketTimes(ticks) == {BucketOf(ticks[i]) : i \in 1..Len(ticks)}

InBucket(ticks, b) == {i \in 1..Len(ticks) : BucketOf(ticks[i]) = b}

MaxOf(S) == CHOOSE x \in S : \A y \in S : y <= x

MinOf(S) == CHOOSE x \in S : \A y \in S : x <= y

RECURSIVE SumQty(_, _)
SumQty(ticks, I) ==
    IF I = {} THEN 0
    ELSE LET i == CHOOSE x \in I : TRUE IN ticks[i].qty + SumQty(ticks, I \ {i})

\* the loop of the upload helper over ticks[i..]: buckets maps a bucket
\* time to its running bar
RECURSIVE UploadFold(_, _, _)
UploadFold(ticks, i, buckets) ==
    IF i > Len(ticks) THEN buckets
    ELSE
      LET tick == ticks[i]
          bt == BucketOf(tick)
          price == tick.price
      IN
      IF bt \notin DOMAIN buckets
      THEN UploadFold(ticks, i + 1,
              [x \in DOMAIN buckets \cup {bt} |->
                  IF x = bt
                  THEN [time |-> bt, open |-> price, high |-> price, low |-> price,
                        close |-> price, volume |-> tick.qty,
                        first_ts |-> tick.timestamp, last_ts |-> tick.timestamp,
                        trade_count |-> 1]
                  ELSE buckets[x]])
      ELSE
        LET b == buckets[bt]
            isFirst == tick.timestamp < b.first_ts
            isLast == tick.timestamp >= b.last_ts
            b2 == [time |-> bt,
                   open |-> IF isFirst THEN price ELSE b.open,
                   high |-> Max(b.high, price),
                   low |-> Min(b.low, price),
                   close |-> IF isLast THEN price ELSE b.close,
                   volume |-> b.volume + tick.qty,
                   first_ts |-> IF isFirst THEN tick.timestamp ELSE b.first_ts,
                   last_ts |-> IF isLast THEN tick.timestamp ELSE b.last_ts,
                   trade_count |-> b.trade_count + 1]
        IN UploadFold(ticks, i + 1, [buckets EXCEPT ![bt] = b2])

\* compute_ohlc_from_ticks of the upload endpoints: the bars in ascending
\* bucket order, without first_ts, last_ts and trade_count
UploadOhlc(ticks) ==
    LET buckets == UploadFold(ticks, 1, <<>>)
        order == SortedSeq(DOMAIN buckets)
    IN  [k \in 1..Len(order) |->
            LET b == buckets[order[k]] IN
            [time |-> b.time, open |-> b.open, high |-> b.high, low |-> b.low,
             close |-> b.close, volume |-> b.volume]]

\* the rows array_agg(price ORDER BY time ASC) may put first in bucket b
Earliest(ticks, b) ==
    {i \in InBucket(ticks, b) :
        \A j \in InBucket(ticks, b) : ticks[i].timestamp <= ticks[j].timestamp}

\* the rows array_agg(price ORDER BY time DESC) may put first in bucket b
Latest(ticks, b) ==
    {i \in InBucket(ticks, b) :
        \A j \in InBucket(ticks, b) : ticks[i].timestamp >= ticks[j].timestamp}

\* the query of TimescaleClient.compute_ohlc_from_ticks, o and c saying
\* which row each ORDER BY puts first in a bucket
SqlOhlc(ticks, o, c) ==
    LET order == SortedSeq(BucketTimes(ticks)) IN
    [k \in 1..Len(order) |->
        LET b == order[k]
            I == InBucket(ticks, b)
        IN  [time |-> b,
             open |-> ticks[o[b]].price,
             high |-> MaxOf({ticks[i].price : i \in I}),
             low |-> MinOf({ticks[i].price : i \in I}),
             close |-> ticks[c[b]].price,
             volume |-> SumQty(ticks, I),
             trade_count |-> Cardinality(I)]]

\* a tick of the symbol is stored, with a trade id that is not used yet
OhlcAddTick(id, ts, price, qty) ==
    /\ Len(ohlcTicks) < MaxOhlcTicks
    /\ \A i \in 1..Len(ohlcTicks) : ohlcTicks[i].trade_id # id
    /\ ohlcTicks' = Append(ohlcTicks,
          [trade_id |-> id, timestamp |-> ts, price |-> price, qty |-> qty])
    /\ ohlcOut' = <<>>
    /\ UNCHANGED <<tickVars, adfVars>>
    /\ ServiceFrame

\* TimescaleClient.compute_ohlc_from_ticks over a range that holds the ticks
ComputeOhlcSql ==
    /\ ohlcTicks # <<>>
    /\ \E o \in [BucketTimes(ohlcTicks) -> 1..Len(ohlcTicks)],
          c \in [BucketTimes(ohlcTicks) -> 1..Len(ohlcTicks)] :
          /\ \A b \in BucketTimes(ohlcTicks) :
                o[b] \in Earliest(ohlcTicks, b) /\ c[b] \in Latest(ohlcTicks, b)
          /\ ohlcOut' = <<[by |-> "sql", bars |-> SqlOhlc(ohlcTicks, o, c)]>>
    /\ UNCHANGED <<ohlcTicks, tickVars, adfVars>>
    /\ ServiceFrame

\* compute_ohlc_from_ticks of the upload endpoints on the list of ticks
ComputeOhlcUpload ==
    /\ ohlcTicks # <<>>
    /\ ohlcOut' = <<[by |-> "upload", bars |-> UploadOhlc(ohlcTicks)]>>
    /\ UNCHANGED <<ohlcTicks, tickVars, adfVars>>
    /\ ServiceFrame

\* -------------------------------------------------------------- ADF gate
\* what adfuller may do: statsmodels is missing, the test raises, or it
\* returns a statistic and a p-value (in percent)
AdfOutcomes ==
    {[kind |-> "import_error"], [kind |-> "fails"]}
        \cup [kind : {"result"}, stat : {-3, -1}, p : {1, 5, 10}]

\* QuantEngine._adf_test: (adf_stat, p_value, p_value < 0.05) or None
adf_test(outcome) ==
    IF outcome.kind = "result"
    THEN <<[adf_stat |-> outcome.stat, p_value |-> outcome.p,
            is_stationary |-> outcome.p < 5]>>
    ELSE <<>>

AdfFields_OffByOne(min_len, outcome) ==
    LET adf_result == IF min_len > MIN_POINTS_FOR_ADF THEN adf_test(outcome) ELSE <<>>
    IN  IF adf_result # <<>>
        THEN [adf_statistic |-> <<adf_result[1].adf_stat>>,
              adf_pvalue |-> <<adf_result[1].p_value>>,
              is_stationary |-> <<adf_result[1].is_stationary>>]
        ELSE [adf_statistic |-> <<>>, adf_pvalue |-> <<>>, is_stationary |-> <<>>]

\* the ADF fields of _compute_pair_analytics; <<>> is None
AdfFields(min_len, outcome) ==
    LET adf_result == IF min_len >= MIN_POINTS_FOR_ADF THEN adf_test(outcome) ELSE <<>>
    IN  IF adf_result # <<>>
        THEN [adf_statistic |-> <<adf_result[1].adf_stat>>,
              adf_pvalue |-> <<adf_result[1].p_value>>,
              is_stationary |-> <<adf_result[1].is_stationary>>]
        ELSE [adf_statistic |-> <<>>, adf_pvalue |-> <<>>, is_stationary |-> <<>>]

\* _compute_pair_analytics of a pair of aligned length min_len
PairAdf(min_len, outcome) ==
    /\ adfIn' = <<[min_len |-> min_len, outcome |-> outcome]>>
    /\ adfOut' = <<AdfFields(min_len, outcome)>>
    /\ UNCHANGED <<tickVars, ohlcVars>>
    /\ ServiceFrame

\* ------------------------------------------------------------- shutdown
GW == "market_gateway"

InitShutdown ==
    /\ hbPc = "sleep"
    /\ closing = <<>>
    /\ closeLeft = {}
    /\ closeSize = 0
    /\ gwClock = StartClock
    /\ last_tick_time = [s \in Sym |-> 0]
    /\ beatIdx = 0
    /\ beat = [s \in Sym |-> <<>>]
    /\ ackPc = <<>>
    /\ scanPc = <<>>
    /\ scanOut = <<>>

\* what the shutdown steps of the orchestrator and the gateway leave alone
ShutFrame ==
    UNCHANGED <<stream, engineVars, archVars, alertVars, logVars, fnVars,
                reconnect_delay, trade_buffer, tick_count, fIdx, fBatch,
                received, accepted, malformed, swapped, dropped,
                orchClock, taskWake, startLog, orchPass>>

\* _heartbeat: the sleep of 30 s ends, the heartbeats are logged and
\* published, and the loop re-checks running
HeartbeatWake ==
    /\ hbPc = "sleep"
    /\ ~running
    /\ hbPc' = "done"
    /\ UNCHANGED <<closing, closeLeft, closeSize, running, lPc, sockets, closed,
                   flPc, stopPc, stopRuns, taskPc, svc_running, stopLog, orchPc>>
    /\ ShutFrame

\* stop_all_services awaits market_gateway.stop(): running = False, the
\* buffers (empty here) are flushed without suspending, and the loop over
\* state.sockets.items() awaits close() of its first socket; with no
\* socket, the broker client is disconnected and stop() returns
ShutGatewayStop ==
    /\ orchPc = 1
    /\ stopPc \in {"idle", "done"}
    /\ \A s \in Sym : trade_buffer[s] = <<>>
    /\ running' = FALSE
    /\ svc_running' = [svc_running EXCEPT ![GW] = FALSE]
    /\ stopLog' = Append(stopLog, [service |-> GW, by |-> orchPass])
    /\ stopRuns' = stopRuns + 1
    /\ IF sockets = {}
       THEN /\ stopPc' = "done"
            /\ orchPc' = 2
            /\ UNCHANGED <<closing, closeLeft, closeSize>>
       ELSE /\ \E c \in sockets :
                 /\ closing' = <<c>>
                 /\ closeLeft' = sockets \ {c}
            /\ closeSize' = Cardinality(sockets)
            /\ stopPc' = "closing"
            /\ UNCHANGED orchPc
    /\ UNCHANGED <<hbPc, lPc, sockets, closed, flPc, taskPc>>
    /\ ShutFrame

\* ws.close() returns and the loop asks the dict for its next item: the
\* iterator raises RuntimeError when a listener has added a key meanwhile,
\* and the exception leaves stop() and stop_all_services; otherwise the
\* next socket is closed, or the client is disconnected and stop() returns
ShutCloseReturn ==
    /\ orchPc = 1
    /\ stopPc = "closing"
    /\ closed' = closed \cup {closing[1]}
    /\ IF Cardinality(sockets) # closeSize
       THEN /\ stopPc' = "raised"
            /\ orchPc' = -1
            /\ closing' = <<>>
            /\ UNCHANGED closeLeft
       ELSE IF closeLeft = {}
       THEN /\ stopPc' = "done"
            /\ orchPc' = 2
            /\ closing' = <<>>
            /\ UNCHANGED closeLeft
       ELSE /\ \E c \in closeLeft :
                 /\ closing' = <<c>>
                 /\ closeLeft' = closeLeft \ {c}
            /\ UNCHANGED <<stopPc, orchPc>>
    /\ UNCHANGED <<hbPc, closeSize, running, lPc, sockets, flPc, stopRuns,
                   taskPc, svc_running, stopLog>>
    /\ ShutFrame

\* stop_all_services cancels the tasks that are not done: a task in its
\* start delay ends; the gateway task passes the cancellation on to its
\* listeners, its flush worker and its heartbeat
ShutCancelTasks ==
    /\ orchPc = 5
    /\ taskPc' = [s \in ServiceNames |->
                     IF taskPc[s] = "sleeping" THEN "done" ELSE taskPc[s]]
    /\ orchPc' = 6
    /\ IF taskPc[GW] = "running"
       THEN /\ lPc' = [s \in Sym |-> "done"]
            /\ flPc' = "done"
            /\ hbPc' = "done"
       ELSE UNCHANGED <<lPc, flPc, hbPc>>
    /\ UNCHANGED <<closing, closeLeft, closeSize, running, sockets, closed,
                   stopPc, stopRuns, svc_running, stopLog>>
    /\ ShutFrame

\* gather of MarketGateway.start() returns when its tasks have ended, and
\* the finally block calls stop()
ShutGatewayFinally ==
    /\ taskPc[GW] = "running"
    /\ \A s \in Sym : lPc[s] = "done"
    /\ flPc = "done"
    /\ hbPc = "done"
    /\ taskPc' = [taskPc EXCEPT ![GW] = "done"]
    /\ stopLog' = Append(stopLog, [service |-> GW, by |-> "finally"])
    /\ stopRuns' = stopRuns + 1
    /\ closed' = sockets
    /\ UNCHANGED <<hbPc, closing, closeLeft, closeSize, running, lPc, sockets,
                   flPc, stopPc, svc_running, orchPc>>
    /\ ShutFrame

\* ------------------------------------------------------------------ specs
Init == InitBroker /\ InitEngine /\ InitArchivist /\ InitGateway /\ InitAlerts /\ InitLog /\ InitOrch
        /\ InitModels /\ InitShutdown

\* the engine on two streams of equal ticks
FeedTick == \E s \in Sym : XAdd(s, 1, 1, TRUE) /\ UNCHANGED <<engineVars, archVars, gatewayVars, auxVars>>

Next ==
    \/ FeedTick
    \/ EngineReadStart
    \/ \E d \in {0, 500} : EngineReadReturn(d)
    \/ EngineCompute(TRUE)

Spec == Init /\ [][Next]_vars

\* the archivist on streams that may hold entries that do not parse
FeedEntry ==
    \E s \in Sym, ok \in BOOLEAN :
        /\ Len(stream[SYMBOLS[1]]) + Len(stream[SYMBOLS[2]]) < ArchTicks
        /\ XAdd(s, 1, 1, ok)
        /\ UNCHANGED <<engineVars, archVars, gatewayVars, auxVars>>

NextArchivist ==
    \/ FeedEntry
    \/ ArchCycleStart
    \/ ArchReadStart
    \/ ArchReadReturn
    \/ ArchReadEmpty
    \/ ArchReadError
    \/ ArchInsertOk
    \/ ArchInsertFail
    \/ ArchAnalytics

SpecArchivist == Init /\ [][NextArchivist]_vars

\* one symbol with varying integer prices and quantities
FeedPriced ==
    \E t \in {<<1, 2>>, <<2, 1>>} :
        /\ Len(stream[SYMBOLS[1]]) < VwapTicks
        /\ XAdd(SYMBOLS[1], t[1], t[2], TRUE)
        /\ UNCHANGED <<engineVars, archVars, gatewayVars, auxVars>>

NextVwap ==
    \/ FeedPriced
    \/ EngineReadStart
    \/ \E d \in {0, 500} : EngineReadReturn(d)
    \/ EngineCompute(TRUE)

SpecVwap == Init /\ [][NextVwap]_vars

\* few ticks, rounds at any multiple of 250 ms, publications that may fail
FeedFew ==
    \E s \in Sym :
        /\ Len(stream[SYMBOLS[1]]) + Len(stream[SYMBOLS[2]]) < CadenceTicks
        /\ XAdd(s, 1, 1, TRUE)
        /\ UNCHANGED <<engineVars, archVars, gatewayVars, auxVars>>

NextCadence ==
    \/ FeedFew
    \/ EngineReadStart
    \/ \E d \in {0, 250, 500} : EngineReadReturn(d)
    \/ \E ok \in BOOLEAN : EngineCompute(ok)

SpecCadence == Init /\ [][NextCadence]_vars

\* the archivist with cycles that keep running, reads that return when
\* entries are there and inserts that eventually succeed
SpecArchivistFair ==
    /\ Init /\ [][NextArchivist]_vars
    /\ WF_vars(ArchCycleStart)
    /\ WF_vars(ArchReadStart)
    /\ SF_vars(ArchReadReturn)
    /\ WF_vars(ArchReadEmpty)
    /\ SF_vars(ArchInsertOk)
    /\ WF_vars(ArchAnalytics)

\* the engine and the archivist reading the same streams, one of which
\* receives entries; the engine's reads return as soon as entries are there
FeedShared ==
    \E ok \in BOOLEAN :
        /\ Len(stream[SYMBOLS[1]]) < ConsumerTicks
        /\ XAdd(SYMBOLS[1], 1, 1, ok)
        /\ UNCHANGED <<engineVars, archVars, gatewayVars, auxVars>>

NextConsumers ==
    \/ FeedShared
    \/ EngineReadStart
    \/ EngineReadReturn(0)
    \/ EngineCompute(TRUE)
    \/ ArchCycleStart
    \/ ArchReadStart
    \/ ArchReadReturn
    \/ ArchReadEmpty
    \/ ArchReadError
    \/ ArchInsertOk
    \/ ArchInsertFail
    \/ ArchAnalytics

SpecConsumers == Init /\ [][NextConsumers]_vars

\* the gateway with a reachable exchange and broker: trades and other
\* events arrive, the flush worker and stop() run in any interleaving
NextGateway ==
    \/ \E s \in Sym : ListenerConnectOk(s)
    \/ \E s \in Sym, kind \in {"trade", "other"} : ListenerRecv(s, kind)
    \/ \E s \in Sym : ListenerTimeout(s)
    \/ \E s \in Sym : ListenerClosed(s)
    \/ FlusherWake
    \/ \E c \in Callers : FlushExec(c, TRUE)
    \/ StopBegin
    \/ StopCloseSockets
    \/ StopDisconnect

SpecGateway == Init /\ [][NextGateway]_vars

\* the listeners against an exchange that refuses and drops connections
NextBackoff ==
    \/ \E s \in Sym : ListenerConnectOk(s)
    \/ \E s \in Sym : ListenerConnectFail(s)
    \/ \E s \in Sym : ListenerBackoffDone(s)
    \/ \E s \in Sym : ListenerTimeout(s)
    \/ \E s \in Sym : ListenerClosed(s)
    \/ \E s \in Sym : ListenerError(s)
    \/ StopBegin
    \/ StopCloseSockets
    \/ StopDisconnect

SpecBackoff == Init /\ [][NextBackoff]_vars

\* alert evaluation on snapshots with any z_score, a broker whose calls may
\* fail, and the readers of the alert store
ZInputs == {<<>>} \cup {<<z>> : z \in {-3, -2, 0, 2, 3}}

NextAlerts ==
    \/ \E k \in Keys, z \in ZInputs : CheckAlerts(k, z)
    \/ \E ok \in BOOLEAN : AddAlertHSet(ok)
    \/ \E ok \in BOOLEAN : AddAlertExpire(ok)
    \/ \E ok \in BOOLEAN : AddAlertZAdd(ok)
    \/ \E ok \in BOOLEAN : PublishAlert(ok)
    \/ \E i \in AlertIds : AlertGrowsOld(i)
    \/ \E i \in AlertIds : AlertHashExpires(i)
    \/ GetActiveAlerts
    \/ CleanupOldAlerts

SpecAlerts == Init /\ [][NextAlerts]_vars

\* one symbol whose first ticks may carry a large quantity, so that the
\* running quantity sum can fall to zero or below after the window is full
FeedQty ==
    \E q \in {1, 5} :
        /\ Len(stream[SYMBOLS[1]]) < VwapTicks
        /\ XAdd(SYMBOLS[1], 1, q, TRUE)
        /\ UNCHANGED <<engineVars, archVars, gatewayVars, auxVars>>

NextHash ==
    \/ FeedQty
    \/ EngineReadStart
    \/ \E d \in {0, 500} : EngineReadReturn(d)
    \/ EngineCompute(TRUE)

SpecHash == Init /\ [][NextHash]_vars

\* one symbol whose ticks carry exchange timestamps in any order
FeedTimed ==
    \E ts \in {900, 950} :
        /\ Len(stream[SYMBOLS[1]]) < ConsumerTicks
        /\ XAddAt(SYMBOLS[1], 1, 1, TRUE, ts)
        /\ UNCHANGED <<engineVars, archVars, gatewayVars, auxVars>>

NextFresh ==
    \/ FeedTimed
    \/ EngineReadStart
    \/ \E d \in {0, 500} : EngineReadReturn(d)
    \/ EngineCompute(TRUE)

SpecFresh == Init /\ [][NextFresh]_vars

\* the archivist without failures on entries that all parse, stopped and
\* started again at any time between two cycles
FeedParsed ==
    \E s \in Sym :
        /\ Len(stream[SYMBOLS[1]]) + Len(stream[SYMBOLS[2]]) < ArchTicks
        /\ XAdd(s, 1, 1, TRUE)
        /\ UNCHANGED <<engineVars, archVars, gatewayVars, auxVars>>

NextArchival ==
    \/ FeedParsed
    \/ ArchCycleStart
    \/ ArchReadStart
    \/ ArchReadReturn
    \/ ArchReadEmpty
    \/ ArchInsertOk
    \/ ArchAnalytics
    \/ ArchRestart

SpecArchival == Init /\ [][NextArchival]_vars

\* the log sink receiving entries of any service and operation, 0, 500 or
\* 1000 ms apart
NextLog ==
    \E sv \in LogServices, op \in LogOps, d \in {0, 500, 1000} : ProcessLog(sv, op, d)

SpecLog == Init /\ [][NextLog]_vars

\* the orchestrator from start_all_services to the end of main
NextOrch ==
    \/ \E i \in 1..Len(TaskOrder) : TaskBegin(i)
    \/ \E s \in ServiceNames : TaskWake(s)
    \/ OrchTick
    \/ Signal
    \/ \E i \in 1..Len(StopOrder) : StopService(i)
    \/ CancelTasks
    \/ \E s \in ServiceNames : TaskFinally(s)
    \/ MainFinally

SpecOrch == Init /\ [][NextOrch]_vars

\* the gateway receiving well-formed and malformed trade events while the
\* flush worker runs against a reachable broker
NextMalformed ==
    \/ \E s \in Sym : ListenerConnectOk(s)
    \/ \E s \in Sym, kind \in {"trade", "malformed"} : ListenerRecv(s, kind)
    \/ FlusherWake
    \/ FlushExec("flusher", TRUE)

SpecMalformed == Init /\ [][NextMalformed]_vars

\* ticks written to and read back from their broker encoding
NextTick ==
    \/ \E tick \in TickInputs : TickToRedis(tick)
    \/ TickFromRedis

SpecTick == Init /\ [][NextTick]_vars

\* bars computed from up to MaxOhlcTicks ticks in two one-second buckets
NextOhlc ==
    \/ \E id \in 1..MaxOhlcTicks, ts \in {0, 500, 1000}, price \in {5, 7} :
          OhlcAddTick(id, ts, price, 1)
    \/ ComputeOhlcSql
    \/ ComputeOhlcUpload

SpecOhlc == Init /\ [][NextOhlc]_vars

\* the gateway from start to the end of the stop() that the finally block
\* of start() runs: trades arrive, the flush worker and stop() flush in any
\* interleaving, a pipeline succeeds or raises
NextSwap ==
    \/ \E s \in Sym : ListenerConnectOk(s)
    \/ \E s \in Sym : ListenerRecv(s, "trade")
    \/ \E s \in Sym : ListenerTimeout(s)
    \/ FlusherWake
    \/ \E c \in Callers, ok \in BOOLEAN : FlushExec(c, ok)
    \/ StopBegin
    \/ StopCloseSockets
    \/ StopDisconnect
    \/ StopFinally

SpecSwap == Init /\ [][NextSwap]_vars

\* the engine on a stream that holds entries that do not parse among ticks
\* of varying price and quantity
FeedMixed ==
    \E ok \in BOOLEAN, t \in {<<1, 1>>, <<2, 3>>} :
        /\ Len(stream[SYMBOLS[1]]) < ArchTicks
        /\ XAdd(SYMBOLS[1], t[1], t[2], ok)
        /\ UNCHANGED <<engineVars, archVars, gatewayVars, auxVars>>

NextSkip ==
    \/ FeedMixed
    \/ EngineReadStart
    \/ EngineReadReturn(0)
    \/ EngineCompute(TRUE)

SpecSkip == Init /\ [][NextSkip]_vars

\* pair snapshots of every aligned length up to MaxAdfLen
NextAdf ==
    \E min_len \in MIN_POINTS_FOR_ANALYTICS..MaxAdfLen, outcome \in AdfOutcomes :
        PairAdf(min_len, outcome)

SpecAdf == Init /\ [][NextAdf]_vars

\* the whole process from the creation of the tasks to the end of main:
\* the services start, the listeners connect, a signal arrives at any time
NextShutdown ==
    \/ \E i \in 1..Len(TaskOrder) : TaskBegin(i)
    \/ \E s \in ServiceNames : TaskWake(s)
    \/ OrchTick
    \/ \E s \in Sym : ListenerConnectOk(s)
    \/ \E s \in Sym : ListenerTimeout(s)
    \/ FlusherWake
    \/ HeartbeatWake
    \/ Signal
    \/ ShutGatewayStop
    \/ ShutCloseReturn
    \/ \E i \in 2..Len(StopOrder) : StopService(i)
    \/ ShutCancelTasks
    \/ \E s \in ServiceNames \ {GW} : TaskFinally(s)
    \/ ShutGatewayFinally
    \/ MainFinally

\* every step but the signal is taken when it stays possible: timers end,
\* connects and closes return, and the event loop runs the ready tasks
SpecShutdown ==
    /\ Init /\ [][NextShutdown]_vars
    /\ WF_vars(\E i \in 1..Len(TaskOrder) : TaskBegin(i))
    /\ WF_vars(\E s \in ServiceNames : TaskWake(s))
    /\ WF_vars(OrchTick)
    /\ WF_vars(\E s \in Sym : ListenerConnectOk(s))
    /\ WF_vars(\E s \in Sym : ListenerTimeout(s))
    /\ WF_vars(FlusherWake)
    /\ WF_vars(HeartbeatWake)
    /\ WF_vars(ShutGatewayStop)
    /\ WF_vars(ShutCloseReturn)
    /\ WF_vars(\E i \in 2..Len(StopOrder) : StopService(i))
    /\ WF_vars(ShutCancelTasks)
    /\ WF_vars(\E s \in ServiceNames \ {GW} : TaskFinally(s))
    /\ WF_vars(ShutGatewayFinally)
    /\ WF_vars(MainFinally)

\* the gateway with its heartbeat: the listener of the first symbol
\* connects, receives and loses its connection; the flush worker, whose
\* pipeline may fail; the clock
NextBeat ==
    \/ ListenerConnectOk(SYMBOLS[1]) \/ ListenerClosed(SYMBOLS[1])
    \/ \E kind \in {"trade", "malformed"} : ListenerRecv(SYMBOLS[1], kind)
    \/ FlusherWake
    \/ \E ok \in BOOLEAN : FlushExec("flusher", ok)
    \/ GatewayClockTick
    \/ HeartbeatLog \/ HeartbeatPublished

SpecBeat == Init /\ [][NextBeat]_vars

\* the engine on ticks of one symbol that trade a small or a large quantity
FeedSized ==
    \E q \in {1, 5} :
        /\ Len(stream[SYMBOLS[1]]) < VwapTicks
        /\ XAdd(SYMBOLS[1], 1, q, TRUE)
        /\ UNCHANGED <<engineVars, archVars, gatewayVars, auxVars>>

NextSums ==
    \/ FeedSized
    \/ EngineReadStart
    \/ \E d \in {0, 500} : EngineReadReturn(d)
    \/ EngineCompute(TRUE)

SpecSums == Init /\ [][NextSums]_vars

\* the alert store with a broker that answers every command: alerts are
\* added, acknowledged, and their keys expire
NextAck ==
    \/ \E k \in Pairs, z \in {<<-3>>, <<3>>} : CheckAlerts(k, z)
    \/ AddAlertHSet(TRUE) \/ AddAlertExpire(TRUE) \/ AddAlertZAdd(TRUE)
    \/ PublishAlert(TRUE)
    \/ \E i \in AlertIds : AlertGrowsOld(i) \/ AlertHashExpires(i) \/ AckExists(i)
    \/ AckHSet

SpecAck == Init /\ [][NextAck]_vars

\* the engine built with the default window_size or with one that is
\* larger than the capacity of the tick stores, on ticks of one symbol
WindowSizes == {ROLLING_WINDOW_TICKS, DequeMaxLen + 1}

InitWindow ==
    /\ InitBroker /\ InitEngineOf(WindowSizes) /\ InitArchivist /\ InitGateway
    /\ InitAlerts /\ InitLog /\ InitOrch /\ InitModels /\ InitShutdown

FeedWindow ==
    /\ Len(stream[SYMBOLS[1]]) < DequeMaxLen + 1
    /\ XAdd(SYMBOLS[1], 1, 1, TRUE)
    /\ UNCHANGED <<engineVars, archVars, gatewayVars, auxVars>>

NextWindow ==
    \/ FeedWindow
    \/ EngineReadStart
    \/ \E d \in {0, 500} : EngineReadReturn(d)
    \/ EngineCompute(TRUE)

SpecWindow == InitWindow /\ [][NextWindow]_vars

\* the alert store read by get_active_alerts while alerts are added and
\* their keys expire
ScanSymbols == {<<>>} \cup {<<k>> : k \in Keys}

NextScan ==
    \/ \E k \in Pairs, z \in {<<-3>>, <<3>>} : CheckAlerts(k, z)
    \/ AddAlertHSet(TRUE) \/ AddAlertExpire(TRUE) \/ AddAlertZAdd(TRUE)
    \/ PublishAlert(TRUE)
    \/ \E i \in AlertIds : AlertGrowsOld(i) \/ AlertHashExpires(i)
    \/ \E limit \in 0..MaxLimit, symbol \in ScanSymbols : ScanBegin(limit, symbol)
    \/ ScanHGetAll

SpecScan == Init /\ [][NextScan]_vars

\* ----------------------------------------------------------------- claims
RECURSIVE SumPQ(_, _)
SumPQ(prices, quantities) ==
    IF prices = <<>> THEN 0
    ELSE Head(prices) * Head(quantities) + SumPQ(Tail(prices), Tail(quantities))

RECURSIVE SumQ(_)
SumQ(quantities) ==
    IF quantities = <<>> THEN 0 ELSE Head(quantities) + SumQ(Tail(quantities))

\* the last n elements of q (all of q when it is shorter)
LastN(q, n) == IF Len(q) <= n THEN q ELSE SubSeq(q, Len(q) - n + 1, Len(q))

\* C1: every snapshot has tick_count <= window_size and no per-symbol store
\* holds more than window_size ticks
C1_TickCountWithinWindow ==
    /\ \A k \in Keys : snapshots[k] # <<>> => snapshots[k][1].tick_count <= window_size
    /\ \A s \in Sym : Len(symbol_data[s].prices) <= window_size

\* C2: the running sums equal the sums of price*qty and of qty over the
\* ticks of the rolling window, read either as the ticks held in the store
\* or as the last window_size ticks
C2_VwapSumsMatchWindow ==
    \A s \in Sym :
        LET sd == symbol_data[s] IN
        \/ /\ sd.vwap_sum_pq = SumPQ(sd.prices, sd.quantities)
           /\ sd.vwap_sum_q = SumQ(sd.quantities)
        \/ /\ sd.vwap_sum_pq = SumPQ(LastN(sd.prices, window_size),
                                     LastN(sd.quantities, window_size))
           /\ sd.vwap_sum_q = SumQ(LastN(sd.quantities, window_size))

\* C3: a snapshot is insufficient iff tick_count < MIN_POINTS_FOR_ANALYTICS,
\* warming_up iff MIN_POINTS_FOR_ANALYTICS <= tick_count < window_size, and
\* valid otherwise
C3_ValidityRule ==
    \A k \in Keys :
        snapshots[k] # <<>> =>
            LET sn == snapshots[k][1] IN
            /\ sn.validity_status = "insufficient"
                   <=> sn.tick_count < MIN_POINTS_FOR_ANALYTICS
            /\ sn.validity_status = "warming_up"
                   <=> (MIN_POINTS_FOR_ANALYTICS <= sn.tick_count
                        /\ sn.tick_count < window_size)
            /\ sn.validity_status = "valid" <=> sn.tick_count >= window_size

\* a single-symbol snapshot taken with exactly window_size ticks next to a
\* pair snapshot taken with exactly MIN_POINTS_FOR_ANALYTICS ticks
C3_Witness ==
    /\ snapshots[<<SYMBOLS[1]>>] # <<>>
    /\ snapshots[<<SYMBOLS[1]>>][1].tick_count = window_size
    /\ snapshots[<<SYMBOLS[1]>>][1].validity_status = "valid"
    /\ snapshots[<<SYMBOLS[1], SYMBOLS[2]>>] # <<>>
    /\ snapshots[<<SYMBOLS[1], SYMBOLS[2]>>][1].tick_count = MIN_POINTS_FOR_ANALYTICS
    /\ snapshots[<<SYMBOLS[1], SYMBOLS[2]>>][1].validity_status = "warming_up"

\* C10: two consecutive publications of a symbol's snapshot are at least
\* 500 ms apart and two consecutive publications of a pair's snapshot at
\* least 1000 ms apart, on the clock read by _compute_all_analytics
C10_ComputeCadence ==
    \A k \in Keys :
        Len(pubTimes[k]) = 2 =>
            pubTimes[k][2] - pubTimes[k][1] >= (IF Len(k) = 1 THEN 500 ELSE 1000)

\* a symbol published twice exactly 500 ms apart and the pair published
\* twice
C10_Witness ==
    /\ Len(pubTimes[<<SYMBOLS[1]>>]) = 2
    /\ pubTimes[<<SYMBOLS[1]>>][2] - pubTimes[<<SYMBOLS[1]>>][1] = 500
    /\ Len(pubTimes[<<SYMBOLS[1], SYMBOLS[2]>>]) = 2

\* ids in strictly increasing order
Increasing(ids) == \A i \in 1..(Len(ids) - 1) : ids[i] < ids[i + 1]

Archived(s, i) ==
    \E r \in 1..Len(cold_ticks) :
        cold_ticks[r] = [symbol |-> s, trade_id |-> stream[s][i].trade_id]

\* C4: no row (symbol, trade_id) is inserted into the cold ticks table twice
C4_NoDuplicateRows ==
    \A i, j \in 1..Len(cold_ticks) : i # j => cold_ticks[i] # cold_ticks[j]

\* an insert failed at a concrete position, the retry went through, and an
\* entry that does not parse lies before the position of the symbol
C4_Witness ==
    /\ aFailed # <<>>
    /\ aFailed[2] # Dollar
    /\ last_archived_ts[aFailed[1]] > aFailed[2]
    /\ \E i \in 1..Len(stream[aFailed[1]]) :
          /\ ~stream[aFailed[1]][i].ok
          /\ i < last_archived_ts[aFailed[1]]
    /\ Len(cold_ticks) >= 2

\* C5: eventually every tick committed to a stream is in cold storage;
\* stated for the ticks that parse and were appended after the archivist
\* issued its first read of the stream
C5_AtLeastOnce ==
    <>[](\A s \in Sym :
            aStart[s] # <<>> =>
                \A i \in 1..Len(stream[s]) :
                    (i > aStart[s][1] /\ stream[s][i].ok) => Archived(s, i))

\* C6: a failed insert leaves every archive position unchanged, and a
\* position changes only when the insert of its symbol succeeded, to the
\* last processed entry id
C6_CursorKeptOnFailure ==
    [][/\ (aPc = "inserting" /\ aPc' # "inserting" /\ cold_ticks' = cold_ticks)
           => last_archived_ts' = last_archived_ts
       /\ last_archived_ts' # last_archived_ts
           => /\ aPc = "inserting"
              /\ cold_ticks' = cold_ticks \o Rows(SYMBOLS[aIdx], aBatch)
              /\ last_archived_ts' =
                    [last_archived_ts EXCEPT ![SYMBOLS[aIdx]] = aBatch[Len(aBatch)]]
      ]_vars

\* the last insert failed for a symbol whose position was already an entry
\* id, that position is still in place, and the other symbol has one too
C6_Witness ==
    /\ aFailed # <<>>
    /\ aFailed[2] # Dollar
    /\ last_archived_ts[aFailed[1]] = aFailed[2]
    /\ \A s \in Sym : last_archived_ts[s] # Dollar

EngineObservesIncreasing ==
    \A s \in Sym :
        /\ Increasing(eDelivered[s])
        /\ eDelivered[s] # <<>> => eDelivered[s][1] > ePrevLast[s]

InStream(s, t) == \E i \in 1..Len(stream[s]) : stream[s][i].trade_id = t

\* C8: once stop() has returned and the listeners and the flush worker have
\* ended, every trade accepted into a buffer is in the broker stream of its
\* symbol
C8_ShutdownDrains ==
    (stopPc = "done" /\ flPc = "done" /\ \A s \in Sym : lPc[s] = "done") =>
        \A s \in Sym : \A j \in 1..Len(accepted[s]) : InStream(s, accepted[s][j])

\* C9: the reconnect delay of a listener is 1 at start, is one of 1, 2, 4,
\* 8, 16, 30, becomes min(2 * delay, 30) when the wait after a failure ends
\* and 1 when a connection is established, and changes at no other time
C9_BackoffDelay ==
    /\ [](\A s \in Sym : reconnect_delay[s] \in {1, 2, 4, 8, 16, 30})
    /\ [][\A s \in Sym :
            /\ (lPc[s] = "connecting" /\ lPc'[s] \in {"recv", "done"})
                  => reconnect_delay'[s] = 1
            /\ (lPc[s] = "backoff" /\ lPc'[s] # "backoff")
                  => reconnect_delay'[s] =
                        (IF reconnect_delay[s] >= 16 THEN 30
                         ELSE 2 * reconnect_delay[s])
            /\ reconnect_delay'[s] # reconnect_delay[s]
                  => lPc[s] \in {"connecting", "backoff"}
         ]_vars

\* one listener waits at the cap of 30 s while the other is connected
\* with its delay back at 1 s
C9_Witness ==
    /\ lPc[SYMBOLS[1]] = "backoff"
    /\ reconnect_delay[SYMBOLS[1]] = 30
    /\ lPc[SYMBOLS[2]] = "recv"
    /\ reconnect_delay[SYMBOLS[2]] = 1

\* the alerts built for the last snapshot passed to _check_alerts
NewAlerts == SubSeq(generated', Len(generated) + 1, Len(generated'))

\* C11: a snapshot passed to alert evaluation yields exactly one
\* z_score_high alert of severity warning iff its z_score is above the
\* threshold, exactly one z_score_low alert iff it is below minus the
\* threshold, and no alert otherwise (no z_score, or z_score within bounds)
C11_AlertIffBeyondThreshold ==
    [][chkSnap' # chkSnap =>
         LET z == chkSnap'[1].z_score IN
         /\ (z # <<>> /\ z[1] > 2) <=>
                (Len(NewAlerts) = 1 /\ NewAlerts[1].alert_type = "z_score_high"
                   /\ NewAlerts[1].severity = "warning")
         /\ (z # <<>> /\ z[1] < -2) <=>
                (Len(NewAlerts) = 1 /\ NewAlerts[1].alert_type = "z_score_low"
                   /\ NewAlerts[1].severity = "warning")
         /\ (z = <<>> \/ (z[1] >= -2 /\ z[1] <= 2)) <=> NewAlerts = <<>>
      ]_vars

\* a high and a low alert were built and the last snapshot evaluated, with
\* z_score exactly at the threshold, added none
C11_Witness ==
    /\ Len(generated) = 2
    /\ {generated[1].alert_type, generated[2].alert_type}
          = {"z_score_high", "z_score_low"}
    /\ chkSnap # <<>>
    /\ chkSnap[1].z_score = <<2>>
    /\ chkSnap[1].n = 3

\* C12: once the handling of an alert has ended, the alert is in the hot
\* store iff it was published on channel:alerts
C12_StoredIffPublished ==
    chkPc = "idle" =>
        \A i \in 1..Len(generated) :
            (alert_hash[i] # "none") <=> (i \in channel_alerts)

\* C13: after a scan by get_active_alerts no member of alerts:active has an
\* expired hash
C13_ScanPrunesExpired ==
    (lastScan /\ chkPc = "idle") =>
        \A i \in alerts_active : alert_hash[i] # "expired"

\* C14: after each publication the hash state:analytics:<key> holds exactly
\* the non-null fields of the latest snapshot of the key (a null field is
\* absent from the hash)
C14_HashIsLatestSnapshot ==
    \A k \in Keys :
        snapshots[k] # <<>> => state_analytics[k] = snapshots[k]

\* C15: a single-symbol snapshot computed after a tick of the symbol was
\* observed has data_freshness_ms = now - (largest timestamp observed for
\* the symbol), and that is not negative
C15_FreshnessFromMaxTimestamp ==
    [][\A s \in Sym :
          (/\ ePc = "compute"
           /\ last_compute_time'[<<s>>] # last_compute_time[<<s>>]
           /\ snapshots'[<<s>>] # <<>>
           /\ eMaxTs[s] # <<>>)
          => /\ snapshots'[<<s>>][1].data_freshness_ms = clock - eMaxTs[s][1]
             /\ snapshots'[<<s>>][1].data_freshness_ms >= 0
      ]_vars

PairStoresFilled(p) ==
    /\ Len(symbol_data[p[1]].prices) >= MIN_POINTS_FOR_ANALYTICS
    /\ Len(symbol_data[p[2]].prices) >= MIN_POINTS_FOR_ANALYTICS

\* C16: the hash of a pair is written only in states where the stores of
\* both symbols hold at least MIN_POINTS_FOR_ANALYTICS ticks, and it does
\* not exist before
C16_PairNeedsBothSides ==
    /\ [](\A p \in Pairs : state_analytics[p] # <<>> => PairStoresFilled(p))
    /\ [][\A p \in Pairs :
            state_analytics'[p] # state_analytics[p] => PairStoresFilled(p)]_vars

\* the pair was published while one side held exactly the minimum and the
\* other side more
C16_Witness ==
    \E p \in Pairs :
        /\ state_analytics[p] # <<>>
        /\ state_analytics[p][1].tick_count = MIN_POINTS_FOR_ANALYTICS
        /\ Len(symbol_data[p[1]].prices) > MIN_POINTS_FOR_ANALYTICS
        /\ Len(symbol_data[p[2]].prices) = MIN_POINTS_FOR_ANALYTICS

\* the rows of symbol s inserted by the archivist that is running
RunRows(s) ==
    SelectSeq(SubSeq(cold_ticks, runBase + 1, Len(cold_ticks)),
              LAMBDA r : r.symbol = s)

\* C17: without failures, a read returns the next min(batch_size, remaining)
\* entries after the position, the insert adds their rows in stream order and
\* moves the position to the last of them; so the rows inserted in a run are
\* the entries up to the position, one row each, without a gap; and an
\* archivist started again inserts no entry that was in the stream when it
\* was constructed
C17_ArchivalCursor ==
    /\ [](\A s \in Sym :
            LET rows == RunRows(s)
                c == last_archived_ts[s]
            IN  rows # <<>> =>
                  /\ c # Dollar
                  /\ c - Len(rows) >= runLen[s]
                  /\ \A i \in 1..Len(rows) :
                        rows[i].trade_id = stream[s][c - Len(rows) + i].trade_id)
    /\ [][LET s == SYMBOLS[aIdx] IN
          /\ (aPc = "reading" /\ aPc' = "inserting") =>
                /\ Len(aBatch') = Min(BatchSize, Len(stream[s]) - aResolved)
                /\ \A i \in 1..Len(aBatch') : aBatch'[i] = aResolved + i
                /\ last_archived_ts[s] # Dollar => aResolved = last_archived_ts[s]
          /\ cold_ticks' # cold_ticks =>
                /\ cold_ticks' = cold_ticks \o Rows(s, aBatch)
                /\ last_archived_ts'[s] = aBatch[Len(aBatch)]
         ]_vars

\* an archivist constructed after rows were already archived has inserted
\* more entries than one batch holds, and another entry is waiting
C17_Witness ==
    /\ runBase > 0
    /\ \E s \in Sym :
          /\ Len(RunRows(s)) > BatchSize
          /\ runLen[s] > 0

C19_OtherOperationsPass ==
    [][(lastLog' # lastLog /\ lastLog'[1].operation \notin {"stream_write", "ts_write"})
         => /\ lastLog'[1].passed
            /\ lastLog'[1].aggregated_count = <<>>
            /\ operation_counts' = operation_counts
            /\ last_operation_log' = last_operation_log
      ]_vars

\* a heartbeat and then a hash_write of a service passed right after a
\* stream_write of that service was suppressed
C19_Witness ==
    /\ lastLog # <<>>
    /\ lastLog[1].operation = "hash_write"
    /\ lastLog[1].passed
    /\ lastLog[1].n = 4
    /\ operation_counts[<<lastLog[1].service, "stream_write">>] = 1
    /\ logClock = StartClock

\* the stop() calls that stop_all_services made in its pass p, in order
StopsOf(p) == SelectSeq(stopLog, LAMBDA e : e.by = p)

\* C20: in a pass of stop_all_services the services are stopped in the
\* reverse of their start order: a service is never stopped before one that
\* started later (archivist, then quant_engine, then market_gateway)
C20_ReverseStopOrder ==
    \A p \in {"signal", "main"} :
        \A i, j \in 1..Len(StopsOf(p)) :
            i < j => StartDelay[StopsOf(p)[i].service] >= StartDelay[StopsOf(p)[j].service]

\* the number of stop() calls made on service s so far
StopCalls(s) == Cardinality({i \in 1..Len(stopLog) : stopLog[i].service = s})

\* C21: stop() of a service runs at most once in a process lifetime,
\* counting the calls of stop_all_services from the signal handler and from
\* the finally block of main and the call from the finally block of start()
C21_StopRunsOnce == \A s \in ServiceNames : StopCalls(s) <= 1

\* C22: a malformed trade costs only its own record: once the flush worker
\* has flushed every buffer, each well-formed trade that was buffered is in
\* the stream of its symbol
C22_OnlyMalformedSkipped ==
    (flPc = "sleep" /\ \A s \in Sym : trade_buffer[s] = <<>>) =>
        \A s \in Sym : \A j \in 1..Len(accepted[s]) :
            accepted[s][j] \notin malformed => InStream(s, accepted[s][j])

\* C23: from_redis_dict(to_redis_dict(t)) = t for every tick t, and
\* to_redis_dict writes is_buyer_maker as "0" or "1" only
C23_TickRoundTrip ==
    /\ tickOut # <<>> => tickOut[1] = tickIn[1]
    /\ tickRedis # <<>> =>
          /\ tickRedis[1].is_buyer_maker \in {"0", "1"}
          /\ (tickRedis[1].is_buyer_maker = "1") = tickIn[1].is_buyer_maker

\* a tick with a two-digit id, a price of 123.4 and is_buyer_maker true
\* went through both conversions
C23_Witness ==
    /\ tickOut # <<>>
    /\ tickIn[1].trade_id = 12
    /\ tickIn[1].is_buyer_maker
    /\ tickRedis[1].trade_id = <<"1", "2">>
    /\ tickRedis[1].price = <<"1", "2", "3", ".", "4">>
    /\ tickOut[1].price = 1234

\* the tick of bucket b that is first by (time, trade_id)
FirstTick(ticks, b) ==
    CHOOSE i \in Earliest(ticks, b) :
        \A j \in Earliest(ticks, b) : ticks[i].trade_id <= ticks[j].trade_id

\* the tick of bucket b that is latest in time, the smaller trade_id on a tie
LastTick(ticks, b) ==
    CHOOSE i \in Latest(ticks, b) :
        \A j \in Latest(ticks, b) : ticks[i].trade_id <= ticks[j].trade_id

\* C24: the bars are in ascending bucket order, one per bucket that holds a
\* tick, with open and close the prices of the earliest and the latest tick
\* (the smaller trade_id on equal times), high and low the extreme prices,
\* volume the sum of qty and trade_count the number of ticks
C24_OhlcRule ==
    ohlcOut # <<>> =>
        LET bars == ohlcOut[1].bars
            order == SortedSeq(BucketTimes(ohlcTicks))
        IN  /\ Len(bars) = Len(order)
            /\ \A k \in 1..Len(bars) :
                  LET I == InBucket(ohlcTicks, order[k]) IN
                  /\ bars[k].time = order[k]
                  /\ bars[k].open = ohlcTicks[FirstTick(ohlcTicks, order[k])].price
                  /\ bars[k].close = ohlcTicks[LastTick(ohlcTicks, order[k])].price
                  /\ bars[k].high = MaxOf({ohlcTicks[i].price : i \in I})
                  /\ bars[k].low = MinOf({ohlcTicks[i].price : i \in I})
                  /\ bars[k].volume = SumQty(ohlcTicks, I)
                  /\ "trade_count" \in DOMAIN bars[k]
                  /\ bars[k].trade_count = Cardinality(I)

\* C25: stop() of the gateway closes the exchange sockets before it drains
\* the trade buffers: while its drain runs, and after it, no registered
\* socket is still open
C25_SocketsClosedBeforeDrain ==
    stopPc \in {"flushing", "closing"} => sockets \subseteq closed

\* how many times trade id x occurs in the sequence of trades q
Occurs(q, x) == Cardinality({i \in 1..Len(q) : q[i].t = x})

RECURSIVE OccursInBatches(_, _)
OccursInBatches(bs, x) ==
    IF bs = <<>> THEN 0 ELSE Occurs(Head(bs), x) + OccursInBatches(Tail(bs), x)

\* C26: a trade appended to a buffer is at any time either still in the
\* buffer or in exactly one swapped batch, never in two and never lost by a
\* swap; and once the last stop() has run, every trade is in exactly one
\* batch
C26_ExactlyOneBatch ==
    \A s \in Sym : \A j \in 1..Len(accepted[s]) :
        /\ Occurs(trade_buffer[s], accepted[s][j])
              + OccursInBatches(swapped[s], accepted[s][j]) = 1
        /\ (stopRuns = 2 /\ stopPc = "done") =>
              OccursInBatches(swapped[s], accepted[s][j]) = 1

\* the flush worker and stop() are both suspended at a pipeline execute and
\* a trade was appended to the buffer that the flush worker has just swapped
C26_Witness ==
    /\ flPc = "flushing"
    /\ stopPc = "flushing"
    /\ trade_buffer[SYMBOLS[fIdx["flusher"]]] # <<>>
    /\ Len(swapped[SYMBOLS[fIdx["flusher"]]]) = 1

\* the last stop() has run and the trades of a symbol went out in two
\* batches
C26_WitnessEnd ==
    /\ stopRuns = 2
    /\ stopPc = "done"
    /\ \E s \in Sym : Len(swapped[s]) = 2 /\ Len(accepted[s]) = 3

\* C27: a listener connects again only after a backoff wait: it enters
\* its connect from the wait and from nowhere else
C27_BackoffBeforeReconnect ==
    [][\A s \in Sym :
          (lPc'[s] = "connecting" /\ lPc[s] # "connecting") => lPc[s] = "backoff"]_vars

\* C28: when a read of the engine returns, the cursor of every stream that
\* delivered entries is the id of the last of them, whether it parsed or
\* not, and the rolling window and the VWAP sums of the symbol are what the
\* entries that parse alone produce, in their order
C28_FailedEntrySkipped ==
    [][(ePc = "reading" /\ ePc' = "compute") =>
          \A s \in Sym :
             LET got == XRead(s, eResolved[s], ReadCount) IN
             got # <<>> =>
                /\ stream_positions'[s] = got[Len(got)]
                /\ symbol_data'[s] =
                      ProcessEntries(symbol_data[s], s, ParsedIds(s, got))
      ]_vars

\* a read delivered an entry that does not parse followed by one that
\* does; the cursor is on the second and its price is in the window
C28_Witness ==
    \E s \in Sym :
        /\ ePc = "compute"
        /\ Len(eDelivered[s]) = 2
        /\ ~stream[s][eDelivered[s][1]].ok
        /\ stream[s][eDelivered[s][2]].ok
        /\ stream_positions[s] = eDelivered[s][2]
        /\ symbol_data[s].prices = <<stream[s][eDelivered[s][2]].price>>

AdfAllNull(o) == o.adf_statistic = <<>> /\ o.adf_pvalue = <<>> /\ o.is_stationary = <<>>

\* C30: the ADF fields of a pair snapshot are all null when the aligned
\* length is below 50; from 50 on they are all populated with the result of
\* the ADF routine when it returns one, and all null when it does not
C30_AdfGating ==
    adfOut # <<>> =>
        LET o == adfOut[1]
            L == adfIn[1].min_len
            r == adfIn[1].outcome
        IN  /\ L < 50 => AdfAllNull(o)
            /\ (L >= 50 /\ r.kind # "result") => AdfAllNull(o)
            /\ (L >= 50 /\ r.kind = "result") =>
                  /\ o.adf_statistic = <<r.stat>>
                  /\ o.adf_pvalue = <<r.p>>
                  /\ o.is_stationary = <<r.p < 5>>

\* a pair snapshot of aligned length exactly 50 carries a stationary result
C30_Witness ==
    /\ adfOut # <<>>
    /\ adfIn[1].min_len = 50
    /\ adfOut[1].is_stationary = <<TRUE>>
    /\ adfOut[1].adf_pvalue = <<1>>

AllWorkersDone ==
    /\ \A s \in ServiceNames : taskPc[s] = "done"
    /\ \A s \in Sym : lPc[s] = "done"
    /\ flPc = "done"
    /\ hbPc = "done"

\* C29: after a shutdown signal every worker eventually ends: the four
\* service loops, the listeners, the flush worker and the heartbeat
C29_WorkersTerminate == (orchPc # 0) ~> AllWorkersDone

\* C31: a heartbeat reports freshness -1 for a symbol exactly when no flush
\* has yet put a tick of that symbol on a pipeline; once one has, it
\* reports now - last_tick_time, which is not negative, whether or not the
\* symbol's listener is connected.
C31_HeartbeatFreshness ==
    \A s \in Sym : beat[s] # <<>> =>
        LET r == beat[s][1] IN
        /\ (r.freshness = -1) <=> ~r.flushed
        /\ r.flushed => /\ r.freshness = r.now - r.last_time
                        /\ r.freshness >= 0
                        /\ r.last_time > 0

\* a heartbeat taken while the listener is not connected, after a flush
\* of the symbol at an earlier time
C31_Witness ==
    \E s \in Sym : /\ beat[s] # <<>>
                   /\ beat[s][1].flushed
                   /\ ~beat[s][1].connected
                   /\ beat[s][1].freshness > 0

C31_WitnessNone ==
    \E s \in Sym : /\ beat[s] # <<>>
                   /\ ~beat[s][1].flushed
                   /\ accepted[s] # <<>>
                   /\ swapped[s] # <<>>

\* how often _process_tick was given entry i of stream s
TimesProcessed(s, i) == Cardinality({j \in 1..Len(eProcessed[s]) : eProcessed[s][j] = i})

\* C32: every entry appended to a tick stream after the engine's first
\* read was sent is given to _process_tick exactly once: none twice, and
\* when the engine sends a read, every such entry that the read will not
\* return (it lies at or before the position the read starts after) has
\* been processed once.
C32_EveryEntryProcessedOnce ==
    \A s \in Sym : \A i \in 1..Len(stream[s]) :
        (eStart[s] # <<>> /\ i > eStart[s][1]) =>
            /\ TimesProcessed(s, i) <= 1
            /\ (ePc = "reading" /\ i <= eResolved[s]) => TimesProcessed(s, i) = 1

\* C33: the ticks of each stream are in the order their trades were
\* received from the exchange (a trade's id is its rank among the messages
\* received), whichever way the flush worker's pipelines and those of
\* stop() interleave.
C33_StreamInReceiptOrder ==
    \A s \in Sym : \A i, j \in 1..Len(stream[s]) :
        i < j => stream[s][i].trade_id < stream[s][j].trade_id

\* the caller c of _flush_all_buffers awaits its pipeline
Flushing(c) == IF c = "stop" THEN stopPc = "flushing" ELSE flPc = "flushing"

\* in this step the pipeline of caller c raised: the caller was awaiting
\* it, has moved on, and nothing was appended to a stream
FailedExec(c) ==
    /\ Flushing(c)
    /\ stream' = stream
    /\ dropped' # dropped
    /\ fIdx'[c] # fIdx[c]

\* the loop of caller c goes on with the symbols after the failed one:
\* the next non-empty buffer is swapped out and put on a pipeline, or the
\* loop ends with every later buffer empty
Proceeds(c) ==
    LET i == fIdx[c]
        n == fIdx'[c]
    IN  /\ n = 0 \/ n > i
        /\ \A k \in (i + 1)..Len(SYMBOLS) :
              (n = 0 \/ k < n) => trade_buffer[SYMBOLS[k]] = <<>>
        /\ n # 0 => /\ fBatch'[c] = trade_buffer[SYMBOLS[n]]
                    /\ trade_buffer'[SYMBOLS[n]] = <<>>
                    /\ Flushing(c)'
        /\ n = 0 => ~Flushing(c)'
        /\ trade_buffer'[SYMBOLS[i]] = trade_buffer[SYMBOLS[i]]

\* the trades a caller has on a pipeline for symbol s
InFlight(s) ==
    UNION {{fBatch[c][j].t : j \in 1..Len(fBatch[c])} :
              c \in {d \in Callers : fIdx[d] # 0 /\ SYMBOLS[fIdx[d]] = s}}

Buffered(s) == {trade_buffer[s][j].t : j \in 1..Len(trade_buffer[s])}

DroppedOf(s) == {t \in dropped : \E j \in 1..Len(accepted[s]) : accepted[s][j] = t}

\* the trades of a failed pipeline are in no buffer, on no pipeline and in
\* no stream, and the counters of their symbol include them
DroppedStayOut ==
    \A s \in Sym :
        /\ \A t \in DroppedOf(s) :
              /\ t \notin Buffered(s)
              /\ t \notin InFlight(s)
              /\ ~InStream(s, t)
        /\ tick_count[s] = Len(stream[s]) + Cardinality(InFlight(s))
                              + Cardinality(DroppedOf(s))
        /\ DroppedOf(s) # {} => last_tick_time[s] # 0

\* C34: when the pipeline of a flush raises for a symbol, its trades are
\* let go: from then on they are in no buffer, on no later pipeline and in
\* no stream; the same call goes on with the next symbol; tick_count and
\* last_tick_time of the symbol count them all the same.
C34_FailedBatchDiscarded ==
    [][/\ \A c \in Callers : FailedExec(c) => Proceeds(c)
       /\ DroppedStayOut']_vars

\* a pipeline of a symbol failed, and a later one of the same symbol has
\* written a trade received after the lost ones
C34_Witness ==
    \E s \in Sym : \E t \in DroppedOf(s) :
        \E i \in 1..Len(stream[s]) : stream[s][i].trade_id > t

\* C35: with quantities that are not negative and prices that are
\* positive, the running sums vwap_sum_q and vwap_sum_pq of every symbol
\* are never negative.
C35_VwapSumsNotNegative ==
    \A s \in Sym :
        (\A i \in 1..Len(stream[s]) : stream[s][i].price > 0 /\ stream[s][i].qty >= 0)
        => /\ symbol_data[s].vwap_sum_q >= 0
           /\ symbol_data[s].vwap_sum_pq >= 0

\* C36: every alert:<id> hash that exists carries a TTL, at the latest
\* once the EXPIRE of the add_alert that wrote it has been sent, under
\* any interleaving of add_alert, acknowledge_alert and key expiry.
C36_HashAlwaysHasTtl ==
    \A i \in AlertIds :
        alert_hash[i] \in {"no_ttl", "ack_only"}
            => (chkPc = "expire" /\ i = Len(generated))

\* C37: whatever window_size the engine was built with, a single-symbol
\* snapshot computed after window_size ticks of the symbol have been
\* processed reports validity_status = valid.
C37_ValidOnceWindowFilled ==
    [][\A s \in Sym :
          (/\ snapshots'[<<s>>] # snapshots[<<s>>]
           /\ Len(eProcessed[s]) >= window_size)
          => snapshots'[<<s>>][1].validity_status = "valid"]_vars

\* the n highest-scored ids of the sorted set S
TopOf(S, n) == {i \in S : Cardinality({j \in S : j > i}) < n}

\* what a returned call of get_active_alerts must look like
ScanResultOk(r) ==
    /\ Len(r.alerts) <= r.limit
    /\ \A a, b \in 1..Len(r.alerts) : a < b => r.alerts[a] > r.alerts[b]
    /\ {r.ranked[a] : a \in 1..Len(r.ranked)} = TopOf(r.active, r.limit)
    /\ {r.alerts[a] : a \in 1..Len(r.alerts)}
          = {i \in TopOf(r.active, r.limit) :
                 i \in r.found /\ SymbolMatches(i, r.symbol)}

\* C38: a call get_active_alerts(limit, symbol) returns at most limit
\* alerts, newest first, all of them among the limit highest-scored ids of
\* alerts:active: those whose hash was there when it was read and whose
\* symbol matches, and no older alert in place of one left out; the steps
\* of the call change neither alerts:active nor any alert hash.
C38_ScanResultAndFrame ==
    [][(scanPc' # scanPc \/ scanOut' # scanOut)
          => /\ UNCHANGED <<alerts_active, alert_hash>>
             /\ scanOut' # <<>> => ScanResultOk(scanOut'[1])]_vars

====
